---- MODULE Spec2Model ----
(***************************************************************************)
(* A model of clawde's comment-marker workflow: the extraction of AI       *)
(* comments from source text (comment.go), the process-wide dedup cache    *)
(* (comment.go) and the file-change handler that sends prompts to the      *)
(* wrapped program (main.go).                                              *)
(*                                                                         *)
(* Text is modelled at the character level: a Go string is a sequence of   *)
(* one-character strings, a file is a sequence of lines.                   *)
(***************************************************************************)
EXTENDS Integers, Sequences, FiniteSets, TLC

\* ------------------------------------------------------------------------
\* Bounds of the model
\* ------------------------------------------------------------------------
MaxLines == 3
MaxWords == 3
MaxEvents == 3
MaxCalls == 4
MaxBatch == 2
MaxInput == 2
MaxTree == 4
MaxDiffLines == 4
MaxPieces == 3
MaxCallbacks == 3
MaxPresses == 4
MaxPagers == 3
MaxChecks == 3
MaxFileEvents == 3
MaxSearches == 2

\* ------------------------------------------------------------------------
\* Go's strings package, on sequences of characters
\* ------------------------------------------------------------------------
UpperAlpha == <<"A","B","C","D","E","F","G","H","I","J","K","L","M",
                "N","O","P","Q","R","S","T","U","V","W","X","Y","Z">>
LowerAlpha == <<"a","b","c","d","e","f","g","h","i","j","k","l","m",
                "n","o","p","q","r","s","t","u","v","w","x","y","z">>

LowerChar(c) ==
    IF \E k \in 1..26 : UpperAlpha[k] = c
    THEN LowerAlpha[CHOOSE k \in 1..26 : UpperAlpha[k] = c]
    ELSE c

ToLower(s) == [k \in 1..Len(s) |-> LowerChar(s[k])]

IsSpace(c) == c \in {" ", "\t", "\n", "\r"}

HasPrefix(s, t) == Len(s) >= Len(t) /\ SubSeq(s, 1, Len(t)) = t

HasSuffix(s, t) == Len(s) >= Len(t) /\ SubSeq(s, Len(s) - Len(t) + 1, Len(s)) = t

\* the positions (1-based) at which t occurs in s
Occurrences(s, t) == {k \in 1..(Len(s) - Len(t) + 1) : SubSeq(s, k, k + Len(t) - 1) = t}

Contains(s, t) == Occurrences(s, t) # {}

SetMin(S) == CHOOSE m \in S : \A k \in S : m <= k
SetMax(S) == CHOOSE m \in S : \A k \in S : m >= k

\* strings.Index, 1-based; 0 when t does not occur
Index(s, t) == IF Contains(s, t) THEN SetMin(Occurrences(s, t)) ELSE 0

TrimSpace(s) ==
    LET keep == {k \in 1..Len(s) : ~IsSpace(s[k])}
    IN  IF keep = {} THEN <<>> ELSE SubSeq(s, SetMin(keep), SetMax(keep))

TrimPrefix(s, t) == IF HasPrefix(s, t) THEN SubSeq(s, Len(t) + 1, Len(s)) ELSE s

RECURSIVE Split(_, _)
Split(s, sep) ==
    LET k == Index(s, sep)
    IN  IF k = 0 THEN <<s>>
        ELSE <<SubSeq(s, 1, k - 1)>> \o Split(SubSeq(s, k + Len(sep), Len(s)), sep)

RECURSIVE Join(_, _)
Join(parts, sep) ==
    IF Len(parts) = 0 THEN <<>>
    ELSE IF Len(parts) = 1 THEN parts[1]
    ELSE parts[1] \o sep \o Join(Tail(parts), sep)

RECURSIVE ReplaceAll(_, _, _)
ReplaceAll(s, old, new) ==
    LET k == Index(s, old)
    IN  IF k = 0 THEN s
        ELSE SubSeq(s, 1, k - 1) \o new \o ReplaceAll(SubSeq(s, k + Len(old), Len(s)), old, new)

Digits == <<"0","1","2","3","4","5","6","7","8","9">>

RECURSIVE Itoa(_)
Itoa(n) == IF n < 10 THEN <<Digits[n + 1]>> ELSE Itoa(n \div 10) \o <<Digits[(n % 10) + 1]>>

\* filepath.Ext: the suffix of the last path element from its last dot
Ext(path) ==
    LET dots == {k \in 1..Len(path) : path[k] = "." /\ \A j \in k..Len(path) : path[j] # "/"}
    IN  IF dots = {} THEN <<>> ELSE SubSeq(path, SetMax(dots), Len(path))

\* ------------------------------------------------------------------------
\* comment.go: patterns, records, fingerprint
\* ------------------------------------------------------------------------
GoExt == <<".", "g", "o">>
JsExt == <<".", "j", "s">>
PyExt == <<".", "p", "y">>

Slashes == <<"/", "/">>
Hash1 == <<"#">>
BlockOpen == <<"/", "*">>
BlockClose == <<"*", "/">>
TripleDouble == <<"\"", "\"", "\"">>
TripleSingle == <<"'", "'", "'">>

\* the registered extensions and, per extension, the multi-line token pairs
SupportedExts == {GoExt, JsExt, PyExt}

commentPatterns(ext) ==
    IF ext = PyExt
    THEN [SingleLine |-> <<Hash1>>,
          Multiline |-> << [Start |-> TripleDouble, End |-> TripleDouble],
                           [Start |-> TripleSingle, End |-> TripleSingle] >>]
    ELSE [SingleLine |-> <<Slashes>>,
          Multiline |-> << [Start |-> BlockOpen, End |-> BlockClose] >>]

maxCommentLength == 1000

TruncatedSuffix == <<".", ".", ".", "(", "t", "r", "u", "n", "c", "a", "t", "e", "d", ")">>

truncateComment(content) ==
    IF Len(content) <= maxCommentLength THEN content
    ELSE SubSeq(content, 1, maxCommentLength) \o TruncatedSuffix

\* sha256.Sum256 cut to 8 bytes and printed in hex: an uninterpreted digest of
\* the digested text, taken to be collision-free
Sha256Hex8(data) == <<"sha256/8", data>>

\* as HashData, without the line number
HashDataNoLine(comment) ==
    comment.FilePath \o <<":">> \o comment.Content \o <<":">> \o <<comment.ActionType>>

\* fmt.Sprintf("%s:%d:%s:%s", FilePath, LineNumber, Content, ActionType)
HashData(comment) ==
    comment.FilePath \o <<":">> \o Itoa(comment.LineNumber) \o <<":">>
        \o comment.Content \o <<":">> \o <<comment.ActionType>>

generateCommentHash(comment) == Sha256Hex8(HashData(comment))

Min(a, b) == IF a <= b THEN a ELSE b
Max(a, b) == IF a >= b THEN a ELSE b

\* targetLine is 0-based as in the source; lines is 1-based here
extractContextLines(lines, targetLine, contextSize) ==
    LET start == Max(targetLine - contextSize, 0)
        end == Min(targetLine + contextSize + 1, Len(lines))
    IN  [k \in 1..(end - start) |->
            (IF start + k - 1 = targetLine THEN <<">", " ">> ELSE <<" ", " ">>)
                \o Itoa(start + k) \o <<":", " ">> \o lines[start + k]]

NewComment(filePath, lineNumber, endLine, content, fullLine, actionType, lines, target) ==
    LET c == [FilePath |-> filePath, LineNumber |-> lineNumber, EndLine |-> endLine,
              Content |-> content, FullLine |-> fullLine, ActionType |-> actionType]
    IN  [FilePath |-> filePath, LineNumber |-> lineNumber, EndLine |-> endLine,
         Content |-> content, FullLine |-> fullLine, ActionType |-> actionType,
         Hash |-> generateCommentHash(c),
         ContextLines |-> extractContextLines(lines, target, 5)]

\* ------------------------------------------------------------------------
\* comment.go: extractSingleLineComments
\* ------------------------------------------------------------------------
AiBang == <<"a", "i", "!">>
AiQuestion == <<"a", "i", "?">>
AiColon == <<"a", "i", ":">>
SpAiBang == <<" ", "a", "i", "!">>
SpAiQuestion == <<" ", "a", "i", "?">>

commentPrefixFor(ext) == IF ext = PyExt THEN Hash1 ELSE Slashes

\* as singleLineActionType, with 'ai:' also accepted at the end of the content
singleLineActionTypeColonAtEnd(content) ==
    LET lowerContent == ToLower(content)
    IN  IF HasSuffix(lowerContent, SpAiBang) \/ lowerContent = AiBang
           \/ HasPrefix(lowerContent, AiBang) THEN "!"
        ELSE IF HasSuffix(lowerContent, SpAiQuestion) \/ lowerContent = AiQuestion
           \/ HasPrefix(lowerContent, AiQuestion) THEN "?"
        ELSE IF HasPrefix(lowerContent, AiColon) \/ HasSuffix(lowerContent, AiColon) THEN ":"
        ELSE ""

\* as singleLineActionType, with the end markers matched without the space before them
singleLineActionTypeSubstring(content) ==
    LET lowerContent == ToLower(content)
    IN  IF HasSuffix(lowerContent, AiBang) \/ HasPrefix(lowerContent, AiBang) THEN "!"
        ELSE IF HasSuffix(lowerContent, AiQuestion) \/ HasPrefix(lowerContent, AiQuestion) THEN "?"
        ELSE IF HasPrefix(lowerContent, AiColon) THEN ":"
        ELSE ""

\* the marker test of a single-line comment's (already truncated) content:
\* "" when the content carries no marker at its start or end
singleLineActionType(content) ==
    LET lowerContent == ToLower(content)
    IN  IF HasSuffix(lowerContent, SpAiBang) \/ lowerContent = AiBang
           \/ HasPrefix(lowerContent, AiBang) THEN "!"
        ELSE IF HasSuffix(lowerContent, SpAiQuestion) \/ lowerContent = AiQuestion
           \/ HasPrefix(lowerContent, AiQuestion) THEN "?"
        ELSE IF HasPrefix(lowerContent, AiColon) THEN ":"
        ELSE ""

\* as isWholeLine, with every line that has a comment taken as a whole-line comment
isWholeLineAlways(line, commentPrefix) == Contains(line, commentPrefix)

isWholeLine(line, commentPrefix) ==
    Contains(line, commentPrefix) /\ TrimSpace(Split(line, commentPrefix)[1]) = <<>>

\* the text after the first comment prefix, trimmed
commentContentOf(line, commentPrefix) ==
    TrimSpace(Join(Tail(Split(line, commentPrefix)), commentPrefix))

\* as groupEnd, with no line after the first taken into the group
groupEndNone(lines, i, commentPrefix) == i

\* last line (1-based) of the run of whole-line comments that starts at line i
groupEnd(lines, i, commentPrefix) ==
    SetMax({j \in i..Len(lines) : \A k \in (i + 1)..j : isWholeLine(lines[k], commentPrefix)})

NonEmpty(s) == s # <<>>

Nl == <<"\n">>
Sp == <<" ">>

\* as wholeLineRecords, with EndLine set for a comment of one line too
wholeLineRecordsEndAlways(filePath, lines, i, e, commentPrefix) ==
    LET commentLines == SubSeq(lines, i, e)
        allContent == SelectSeq([k \in 1..Len(commentLines) |->
                                    commentContentOf(commentLines[k], commentPrefix)], NonEmpty)
        combinedContent == truncateComment(Join(allContent, Sp))
        actionType == singleLineActionType(combinedContent)
    IN  IF actionType = "" THEN <<>>
        ELSE << NewComment(filePath, i, e, combinedContent, Join(commentLines, Nl),
                           actionType, lines, i - 1) >>

\* the record, if any, of the whole-line group lines[i..e]
wholeLineRecords(filePath, lines, i, e, commentPrefix) ==
    LET commentLines == SubSeq(lines, i, e)
        allContent == SelectSeq([k \in 1..Len(commentLines) |->
                                    commentContentOf(commentLines[k], commentPrefix)], NonEmpty)
        combinedContent == truncateComment(Join(allContent, Sp))
        actionType == singleLineActionType(combinedContent)
    IN  IF actionType = "" THEN <<>>
        ELSE << NewComment(filePath, i, IF Len(commentLines) = 1 THEN 0 ELSE e,
                           combinedContent, Join(commentLines, Nl), actionType, lines, i - 1) >>

\* the record, if any, of the inline comment on line i
inlineRecords(filePath, lines, i, commentPrefix) ==
    LET commentContent == truncateComment(commentContentOf(lines[i], commentPrefix))
        actionType == singleLineActionType(commentContent)
    IN  IF actionType = "" THEN <<>>
        ELSE << NewComment(filePath, i, 0, commentContent, lines[i], actionType, lines, i - 1) >>

\* the loop over the lines, from line i on, with the lines already consumed by a group
RECURSIVE scanSingle(_, _, _, _, _)
scanSingle(filePath, lines, i, processedLines, commentPrefix) ==
    IF i > Len(lines) THEN <<>>
    ELSE IF i \in processedLines \/ ~Contains(lines[i], commentPrefix)
    THEN scanSingle(filePath, lines, i + 1, processedLines, commentPrefix)
    ELSE IF isWholeLine(lines[i], commentPrefix)
    THEN LET e == groupEnd(lines, i, commentPrefix)
         IN  wholeLineRecords(filePath, lines, i, e, commentPrefix)
                \o scanSingle(filePath, lines, i + 1, processedLines \cup ((i + 1)..e), commentPrefix)
    ELSE inlineRecords(filePath, lines, i, commentPrefix)
            \o scanSingle(filePath, lines, i + 1, processedLines, commentPrefix)

extractSingleLineComments(filePath, lines) ==
    scanSingle(filePath, lines, 1, {}, commentPrefixFor(Ext(filePath)))

\* ------------------------------------------------------------------------
\* comment.go: extractMultilineComments
\* ------------------------------------------------------------------------
\* regexp FindAllStringIndex on a literal token: the leftmost non-overlapping
\* occurrences, as 1-based start positions relative to offset 0 of s
RECURSIVE findAll(_, _, _)
findAll(s, t, from) ==
    LET later == {k \in Occurrences(s, t) : k >= from}
    IN  IF later = {} THEN <<>>
        ELSE <<SetMin(later)>> \o findAll(s, t, SetMin(later) + Len(t))

hasContentBetweenMarkers(line, pair) ==
    IF pair.Start = pair.End
    THEN LET matches == findAll(line, pair.Start, 1)
         IN  IF Len(matches) >= 2
             THEN TrimSpace(SubSeq(line, matches[1] + Len(pair.Start),
                                   matches[Len(matches)] - 1)) # <<>>
             ELSE FALSE
    ELSE LET startLoc == Index(line, pair.Start)
             endLoc == Index(line, pair.End)
         IN  IF startLoc # 0 /\ endLoc # 0 /\ startLoc + Len(pair.Start) <= endLoc
             THEN TrimSpace(SubSeq(line, startLoc + Len(pair.Start), endLoc - 1)) # <<>>
             ELSE FALSE

\* removal of every start and end token registered for the extension
RECURSIVE removeTokens(_, _)
removeTokens(content, tokenPairs) ==
    IF Len(tokenPairs) = 0 THEN content
    ELSE removeTokens(ReplaceAll(ReplaceAll(content, tokenPairs[1].Start, <<>>),
                                 tokenPairs[1].End, <<>>),
                      Tail(tokenPairs))

\* as cleanLine, with a leading '*' kept
cleanLineKeepStar(line) == TrimSpace(line)

cleanLine(line) == TrimSpace(TrimPrefix(TrimSpace(line), <<"*">>))

extractMultilineContentLines(fullComment, ext) ==
    LET content == IF ext = <<>>
                   THEN removeTokens(fullComment, commentPatterns(GoExt).Multiline
                                                    \o commentPatterns(PyExt).Multiline)
                   ELSE IF ext \in SupportedExts
                   THEN removeTokens(fullComment, commentPatterns(ext).Multiline)
                   ELSE fullComment
        split == Split(content, Nl)
    IN  SelectSeq([k \in 1..Len(split) |-> cleanLine(split[k])], NonEmpty)

extractMultilineContentForExt(fullComment, ext) ==
    Join(extractMultilineContentLines(fullComment, ext), Sp)

lineHasCommand(lowerLine) ==
    HasSuffix(lowerLine, SpAiBang) \/ lowerLine = AiBang \/ HasPrefix(lowerLine, AiBang)

lineHasQuestion(lowerLine) ==
    HasSuffix(lowerLine, SpAiQuestion) \/ lowerLine = AiQuestion \/ HasPrefix(lowerLine, AiQuestion)

lineHasContext(lowerLine) == HasPrefix(lowerLine, AiColon)

hasValidAIMarker(fullComment, ext) ==
    LET lines == extractMultilineContentLines(fullComment, ext)
    IN  \E k \in 1..Len(lines) :
            LET lowerLine == ToLower(lines[k])
            IN  /\ lines[k] # <<>>
                /\ \/ HasSuffix(lowerLine, SpAiQuestion) \/ lowerLine = AiQuestion
                   \/ HasSuffix(lowerLine, SpAiBang) \/ lowerLine = AiBang
                   \/ HasPrefix(lowerLine, AiColon)
                   \/ HasPrefix(lowerLine, AiQuestion) \/ HasPrefix(lowerLine, AiBang)

\* as determineActionType, with a marker at the start of a line not looked for
determineActionTypeAtEndOnly(fullComment, ext) ==
    LET lines == extractMultilineContentLines(fullComment, ext)
        hasCommand == \E k \in 1..Len(lines) :
                        \/ HasSuffix(ToLower(lines[k]), SpAiBang)
                        \/ ToLower(lines[k]) = AiBang
        hasQuestion == \E k \in 1..Len(lines) :
                        \/ HasSuffix(ToLower(lines[k]), SpAiQuestion)
                        \/ ToLower(lines[k]) = AiQuestion
    IN  IF hasCommand THEN "!"
        ELSE IF hasQuestion THEN "?"
        ELSE "fatal"

\* as determineActionType, with '?' tested before '!'
determineActionTypeQuestionFirst(fullComment, ext) ==
    LET lines == extractMultilineContentLines(fullComment, ext)
        hasCommand == \E k \in 1..Len(lines) : lineHasCommand(ToLower(lines[k]))
        hasQuestion == \E k \in 1..Len(lines) : lineHasQuestion(ToLower(lines[k]))
        hasContext == \E k \in 1..Len(lines) : lineHasContext(ToLower(lines[k]))
    IN  IF hasQuestion THEN "?"
        ELSE IF hasCommand THEN "!"
        ELSE IF hasContext THEN ":"
        ELSE "fatal"

\* "fatal" stands for the log.Fatalf that ends the process
determineActionType(fullComment, ext) ==
    LET lines == extractMultilineContentLines(fullComment, ext)
        hasCommand == \E k \in 1..Len(lines) : lineHasCommand(ToLower(lines[k]))
        hasQuestion == \E k \in 1..Len(lines) : lineHasQuestion(ToLower(lines[k]))
        hasContext == \E k \in 1..Len(lines) : lineHasContext(ToLower(lines[k]))
    IN  IF hasCommand THEN "!"
        ELSE IF hasQuestion THEN "?"
        ELSE IF hasContext THEN ":"
        ELSE "fatal"

\* the record, if any, of the closed block lines[startLine..i]
blockRecords(filePath, lines, startLine, i) ==
    LET fullComment == Join(SubSeq(lines, startLine, i), Nl)
        ext == Ext(filePath)
    IN  IF hasValidAIMarker(fullComment, ext)
        THEN << NewComment(filePath, startLine, i,
                           truncateComment(extractMultilineContentForExt(fullComment, ext)),
                           fullComment, determineActionType(fullComment, ext),
                           lines, startLine - 1) >>
        ELSE <<>>

\* the loop over the lines from line i on; startLine is the opening line of the
\* block being read when inComment
RECURSIVE scanMultiline(_, _, _, _, _, _)
scanMultiline(filePath, lines, pair, i, inComment, startLine) ==
    IF i > Len(lines) THEN <<>>
    ELSE IF ~inComment /\ Contains(lines[i], pair.Start)
    THEN IF Contains(lines[i], pair.End) /\ hasContentBetweenMarkers(lines[i], pair)
         THEN blockRecords(filePath, lines, i, i)
                \o scanMultiline(filePath, lines, pair, i + 1, FALSE, i)
         ELSE scanMultiline(filePath, lines, pair, i + 1, TRUE, i)
    ELSE IF inComment
    THEN IF Contains(lines[i], pair.End)
         THEN blockRecords(filePath, lines, startLine, i)
                \o scanMultiline(filePath, lines, pair, i + 1, FALSE, startLine)
         ELSE scanMultiline(filePath, lines, pair, i + 1, TRUE, startLine)
    ELSE scanMultiline(filePath, lines, pair, i + 1, FALSE, startLine)

\* the inComment flag of the loop of extractMultilineComments after line n
RECURSIVE inCommentAfter(_, _, _)
inCommentAfter(lines, pair, n) ==
    IF n = 0 THEN FALSE
    ELSE IF ~inCommentAfter(lines, pair, n - 1)
    THEN /\ Contains(lines[n], pair.Start)
         /\ ~(Contains(lines[n], pair.End) /\ hasContentBetweenMarkers(lines[n], pair))
    ELSE ~Contains(lines[n], pair.End)

\* as extractMultilineComments, with a block left open closed at the end of the file
extractMultilineCommentsClosedAtEof(filePath, lines, pair) ==
    scanMultiline(filePath, lines \o <<pair.End>>, pair, 1, FALSE, 0)

extractMultilineComments(filePath, lines, pair) ==
    scanMultiline(filePath, lines, pair, 1, FALSE, 0)

\* ------------------------------------------------------------------------
\* comment.go: ExtractAIComments, on the lines of the file read
\* ------------------------------------------------------------------------
RECURSIVE multilineOfPairs(_, _, _)
multilineOfPairs(filePath, lines, pairs) ==
    IF Len(pairs) = 0 THEN <<>>
    ELSE extractMultilineComments(filePath, lines, pairs[1])
            \o multilineOfPairs(filePath, lines, Tail(pairs))

ExtractAIComments(filePath, lines) ==
    IF Ext(filePath) \notin SupportedExts THEN <<>>
    ELSE extractSingleLineComments(filePath, lines)
            \o multilineOfPairs(filePath, lines, commentPatterns(Ext(filePath)).Multiline)

\* ------------------------------------------------------------------------
\* The source texts the extraction is run on
\* ------------------------------------------------------------------------
\* all sequences over S of length 1..n
SeqsUpTo(S, n) == UNION {[1..k -> S] : k \in 1..n}

\* words of comment bodies: markers in three letter cases, words that merely
\* contain "ai" before the punctuation, and a plain word
WBang == <<"A", "I", "!">>
WQuestion == <<"a", "i", "?">>
WColon == <<"A", "i", ":">>
WHawaiiQ == <<"h", "a", "w", "a", "i", "i", "?">>
WSamuraiB == <<"s", "a", "m", "u", "r", "A", "I", "!">>
WFix == <<"f", "i", "x">>
WHawaiiC == <<"H", "a", "w", "a", "i", "i", ":">>
Words == {WBang, WQuestion, WColon, WHawaiiQ, WSamuraiB, WFix, WHawaiiC}

\* a comment body is up to MaxWords words joined by single spaces
WordLists == SeqsUpTo(Words, MaxWords)

\* the four places a body is put in: a whole-line comment and an inline comment
\* of a .go file, a one-line block comment of a .go file, a comment of a .py file
GoPath == <<"t", ".", "g", "o">>
PyPath == <<"t", ".", "p", "y">>
CodeText == <<"x", " ", "=", " ", "1">>
Forms == {"whole", "inline", "block", "py"}

FormLine(form, body) ==
    CASE form = "whole" -> Slashes \o Sp \o body
      [] form = "inline" -> CodeText \o Sp \o Slashes \o Sp \o body
      [] form = "block" -> BlockOpen \o Sp \o body \o Sp \o BlockClose
      [] form = "py" -> Hash1 \o Sp \o body

FormPath(form) == IF form = "py" THEN PyPath ELSE GoPath

\* lines of .go files with single-line comments
GFix == <<"/", "/", " ", "f", "i", "x", " ", "A", "I", "!">>
GWhy == <<"/", "/", " ", "w", "h", "y", " ", "a", "i", "?">>
GNote == <<"/", "/", " ", "A", "I", ":", " ", "n", "o", "t", "e">>
GPlain == <<"/", "/", " ", "p", "l", "a", "i", "n">>
GBlank == <<>>
GCode == <<"x", " ", "=", " ", "1">>
GInline ==
    <<"x", " ", "=", " ", "1", " ", "/", "/", " ", "i", "n", "l", "i", "n", "e", " ",
      "A", "I", "?">>
GIndent ==
    <<" ", " ", "/", "/", " ", "i", "n", "d", "e", "n", "t", "e", "d", " ", "A", "i",
      "?">>
GEmpty == <<"/", "/">>
GroupLines == {GFix, GWhy, GNote, GPlain, GBlank, GCode, GInline, GIndent, GEmpty}

\* lines of .go files with block comments
BOpen == <<"/", "*">>
BClose == <<" ", "*", "/">>
BOpenWhy == <<"/", "*", " ", "w", "h", "y", " ", "a", "i", "?">>
BFixClose == <<" ", "*", " ", "f", "i", "x", " ", "A", "I", "!", " ", "*", "/">>
BNote == <<" ", "*", " ", "A", "I", ":", " ", "n", "o", "t", "e">>
BWhy == <<" ", "*", " ", "w", "h", "y", " ", "a", "i", "?">>
BFix == <<" ", "*", " ", "f", "i", "x", " ", "A", "I", "!">>
BMid == <<" ", "*", " ", "m", "i", "d", " ", "A", "I", "?", " ", "d", "l", "e">>
BOne == <<"/", "*", " ", "o", "n", "e", " ", "A", "I", "!", " ", "*", "/">>
BNone == <<"/", "*", "*", "/">>
BlockLines == {BOpen, BClose, BOpenWhy, BFixClose, BNote, BWhy, BFix, BMid, BOne, BNone}

\* lines of .go files that carry the opt-out sentinel, and marker comments
OSentinel == <<"/", "/", " ", "N", "O", "_", "C", "L", "A", "W", "D", "E">>
OLower ==
    <<"/", "/", " ", "n", "o", "_", "c", "l", "a", "w", "d", "e", " ", "-", " ", "s",
      "k", "i", "p">>
OBlock == <<"/", "*", " ", "N", "o", "_", "C", "l", "a", "w", "d", "e", " ", "*", "/">>
OFix == <<"/", "/", " ", "f", "i", "x", " ", "A", "I", "!">>
OBlockWhy == <<"/", "*", " ", "w", "h", "y", " ", "A", "I", "?", " ", "*", "/">>
OptOutLines == {OSentinel, OLower, OBlock, OFix, OBlockWhy}

\* comments whose text is at or just over the length cap: a filler word and a
\* marker word, as a whole-line comment, an inline comment, a group of two
\* whole-line comments, a one-line block and a block of four lines
LongFillers ==
    {[k \in 1..n |-> "x"] :
        n \in {maxCommentLength - 4, maxCommentLength - 3, maxCommentLength + 1}}
LongWordLists == {<<filler, marker>> : filler \in LongFillers, marker \in {WBang, WQuestion}}
LongForms == {"longwhole", "longinline", "longgroup", "longblock", "longlines"}

LongLines(form, ws) ==
    CASE form = "longwhole" -> <<FormLine("whole", Join(ws, Sp))>>
      [] form = "longinline" -> <<FormLine("inline", Join(ws, Sp))>>
      [] form = "longgroup" -> <<FormLine("whole", ws[1]), FormLine("whole", ws[2])>>
      [] form = "longblock" -> <<FormLine("block", Join(ws, Sp))>>
      [] form = "longlines" ->
            <<BlockOpen, Sp \o <<"*">> \o Sp \o ws[1], Sp \o <<"*">> \o Sp \o ws[2], BClose>>

LongInputs ==
    {[path |-> GoPath, lines |-> LongLines(f, ws), family |-> f, words |-> ws] :
        f \in LongForms, ws \in LongWordLists}

\* paths with and without a registered extension, and the one-line files put at them
TxtPath == <<"t", "e", "s", "t", ".", "t", "x", "t">>
NoExtPath == <<"M", "a", "k", "e", "f", "i", "l", "e">>
BakPath == <<"t", ".", "g", "o", ".", "b", "a", "k">>
UpperPath == <<"t", ".", "G", "O">>
DirDotPath == <<"a", ".", "g", "o", "/", "t">>
JsPath == <<"t", ".", "j", "s">>
UnregisteredPaths == {TxtPath, NoExtPath, BakPath, UpperPath, DirDotPath}
RegisteredPaths == {GoPath, JsPath, PyPath}
HWhy == <<"#", " ", "w", "h", "y", " ", "a", "i", "?">>
PathFiles == {<<GFix>>, <<HWhy>>, <<BOne>>}

PathInputs ==
    {[path |-> p, lines |-> ls, family |-> "paths", words |-> <<>>] :
        p \in UnregisteredPaths \cup RegisteredPaths, ls \in PathFiles}

\* lines of .go files that mix single-line comments with block comments
MixedLines == {GFix, GCode, BOpen, BClose, BOne, BNone, BFix}

\* lines of .py files: empty and one-line docstrings of both quote kinds, an
\* opening or closing quote line, a '#' comment, code, and a line with both kinds
YEmpty == <<"\"", "\"", "\"", "\"", "\"", "\"">>
YOne == <<"\"", "\"", "\"", "f", "i", "x", " ", "A", "I", "!", "\"", "\"", "\"">>
YOneS == <<"'", "'", "'", "w", "h", "y", " ", "a", "i", "?", "'", "'", "'">>
YOpen == <<"\"", "\"", "\"">>
YHash == <<"#", " ", "w", "h", "y", " ", "a", "i", "?">>
YCode == <<"x", " ", "=", " ", "1">>
YBoth ==
    <<"\"", "\"", "\"", "a", "i", "!", " ", "'", "'", "'", "x", "'", "'", "'", "\"",
      "\"", "\"">>
PyLines == {YEmpty, YOne, YOneS, YOpen, YHash, YCode, YBoth}

MixedInputs ==
    {[path |-> GoPath, lines |-> ls, family |-> "mixed", words |-> <<>>] :
        ls \in SeqsUpTo(MixedLines, MaxLines)}
    \cup {[path |-> PyPath, lines |-> ls, family |-> "pylines", words |-> <<>>] :
        ls \in SeqsUpTo(PyLines, MaxLines)}

\* the inputs of the extraction: a path and the lines of the file
ExtractInputs ==
    LongInputs \cup PathInputs \cup MixedInputs \cup
    {[path |-> FormPath(f), lines |-> <<FormLine(f, Join(ws, Sp))>>, family |-> f, words |-> ws] :
        f \in Forms, ws \in WordLists}
    \cup {[path |-> GoPath, lines |-> ls, family |-> "group", words |-> <<>>] : ls \in SeqsUpTo(GroupLines, MaxLines)}
    \cup {[path |-> GoPath, lines |-> ls, family |-> "blocks", words |-> <<>>] : ls \in SeqsUpTo(BlockLines, MaxLines)}
    \cup {[path |-> GoPath, lines |-> ls, family |-> "optout", words |-> <<>>] : ls \in SeqsUpTo(OptOutLines, MaxLines)}

\* ------------------------------------------------------------------------
\* State
\* ------------------------------------------------------------------------
VARIABLES
    xIn,                \* extraction: how the input text was built (family, words)
    xPath,              \* extraction: the path of the file given to the extractor
    xLines,             \* extraction: the lines of that file
    xExists,            \* extraction: whether os.ReadFile can read that file
    xErr,               \* extraction: the error returned, "" for nil
    xRead,              \* extraction: whether os.ReadFile was called
    hPair,              \* fingerprint: the two records given to generateCommentHash
    hOut,               \* fingerprint: their two fingerprints, <<>> before the calls
    rComments,          \* rendering: the records given to the renderer
    rContext,           \* rendering: the context records given to the renderer
    rOp,                \* rendering: the renderer that ran, "" before it ran
    rOut,               \* rendering: the prompt it returned
    uInput,             \* user input: the bytes read from the terminal
    uPos,               \* user input: how many of them processUserInput has handled
    uOutput,            \* user input: processedInput, the bytes to forward
    insertMode,         \* user input: what wrapper.isInInsertMode() returns
    pendingSearches,    \* user input: the search goroutines started and not yet run
    gitIgnore,          \* file search: the root directory and the git-ignore cache
    tree,               \* file search: the files of the tree, in the order the walk meets them
    walked,             \* file search: how many of them the walk has visited
    fileCount,          \* file search: the supported files counted so far
    skipAll,            \* file search: the walk was stopped at the limit
    checks,             \* file search: per file, where its goroutine stands
    foundFiles,         \* file search: the shared list the goroutines append to
    returned,           \* file search: what FindFilesWithAIComments returned
    pContent,           \* diff parser: the terminal output, as its lines
    pDiffs,             \* diff parser: what Parse returned
    pOp,                \* diff parser: the call made
    ptyStream,          \* output: the bytes the wrapped program writes, in all
    ptyRead,            \* output: how many of them startThrottledOutput has read
    readEnded,          \* output: the read returned an error and the loop ended
    bufData,            \* output: outputBuffer.data
    bufTimer,           \* output: the timer of outputBuffer is armed
    firedFlushes,       \* output: timer callbacks that fired and have not run yet
    stdoutWritten,      \* output: the bytes written to os.Stdout
    currentLine,        \* output: outputBuffer.currentLine
    lastNonEmptyLine,   \* output: outputBuffer.lastNonEmptyLine
    isInsertMode,       \* output: outputBuffer.isInsertMode
    consecutiveCount,   \* key repeat: the rapid presses counted
    isHeld,             \* key repeat: the key counts as held
    pendingTimer,       \* key repeat: the timer of the deferred action, 0 for nil
    pendingCallback,    \* key repeat: the deferred action, 0 for nil
    armedTimers,        \* key repeat: the timers set and neither stopped nor expired
    firedTimers,        \* key repeat: the timers expired whose function has not run yet
    registered,         \* key repeat: how many callbacks SetPendingAction was given
    executions,         \* key repeat: the callbacks executed, and from where, oldest first
    cancelled,          \* key repeat: the callbacks CancelPending took away
    handlers,           \* tasks: per file event, how far its handling has come
    searchers,          \* tasks: per Ctrl+/ goroutine, how far it has come
    cacheLog,           \* tasks: the calls made on the dedup cache, oldest first
    watching,           \* watch mode: runWatchMode has not returned
    pager,              \* watch mode: the pager command, empty for none
    lastHash,           \* watch mode: lastHash of the loop
    capture,            \* watch mode: what the last CapturePane call returned
    checkCount,         \* watch mode: the calls of checkAndUpdate so far
    shown,              \* watch mode: the diff texts displayed, oldest first
    currentPagerCmd,    \* watch mode: the pager process on record, 0 for nil
    pagerKilledByUs,    \* watch mode: the flag of the same name
    pagerDone,          \* watch mode: the buffered channel, as the pagers that signalled
    pagers,             \* watch mode: per pager started, how far its exit has come and why
    xOp,                \* extraction: the function that ran, "" before it ran
    xComments,          \* extraction: the records it returned
    disk,               \* the watched files: path -> lines, or NoFile
    processedComments,  \* comment.go: the dedup cache, a Go map[string]bool
    stdin,              \* what the last operation wrote to the wrapped program's stdin
    eventNo,            \* number of file-change events handled so far
    lastPath,           \* the path of the last file-change event handled
    lastEvent,          \* per path, what the last handleFileChange call for it did
    sentOk,             \* the fingerprints sent successfully since the last clear
    calls,              \* the mark/clear calls made from outside the handler, oldest first
    answer              \* the last isCommentProcessed call from outside and its answer

vars == <<xIn, xPath, xLines, xExists, xErr, xRead, hPair, hOut, rComments, rContext, rOp,
          rOut, uInput, uPos, uOutput, insertMode, pendingSearches, gitIgnore, tree, walked,
          fileCount, skipAll, checks, foundFiles, returned, pContent, pDiffs, pOp, ptyStream, ptyRead, readEnded,
          bufData, bufTimer, firedFlushes, stdoutWritten, currentLine, lastNonEmptyLine,
          isInsertMode, consecutiveCount, isHeld, pendingTimer, pendingCallback, armedTimers,
          firedTimers, registered, executions, cancelled, watching, pager, lastHash,
          capture, checkCount, shown, currentPagerCmd, pagerKilledByUs, pagerDone,
          pagers, handlers, searchers, cacheLog, xOp, xComments, disk, processedComments, stdin, eventNo,
          lastPath, lastEvent, sentOk, calls, answer>>

extractVars == <<xIn, xPath, xLines, xExists, xErr, xRead, xOp, xComments>>
hashVars == <<hPair, hOut>>
renderVars == <<rComments, rContext, rOp, rOut>>
inputVars == <<uInput, uPos, uOutput, insertMode, pendingSearches>>
findVars == <<gitIgnore, tree, walked, fileCount, skipAll, checks, foundFiles, returned>>
parseVars == <<pContent, pDiffs, pOp>>
outputVars == <<ptyStream, ptyRead, readEnded, bufData, bufTimer, firedFlushes, stdoutWritten,
                currentLine, lastNonEmptyLine, isInsertMode>>
detectorVars == <<consecutiveCount, isHeld, pendingTimer, pendingCallback, armedTimers,
                  firedTimers, registered, executions, cancelled>>
watchModeVars == <<watching, pager, lastHash, capture, checkCount, shown, currentPagerCmd,
                   pagerKilledByUs, pagerDone, pagers>>
taskVars == <<handlers, searchers, cacheLog>>
laterVars == <<outputVars, detectorVars, watchModeVars, taskVars>>
otherVars == <<findVars, parseVars, laterVars>>
\* the variables of the functions that are called on their own
pureVars == <<hashVars, renderVars, inputVars, otherVars>>
watchVars == <<disk, stdin, eventNo, lastPath, lastEvent, sentOk>>
cacheVars == <<calls, answer>>

\* ------------------------------------------------------------------------
\* comment.go: the dedup cache
\* ------------------------------------------------------------------------
EmptyMap == [h \in {} |-> TRUE]

\* as isCommentProcessed, with every key read as missing
isCommentProcessedNever(cache, comment) == FALSE

\* a read of a Go map[string]bool: false for a missing key
isCommentProcessed(cache, comment) ==
    comment.Hash \in DOMAIN cache /\ cache[comment.Hash]

\* as markCommentProcessed, on a map made anew
markCommentProcessedAlone(cache, comment) == [h \in {comment.Hash} |-> TRUE]

markCommentProcessed(cache, comment) ==
    [h \in DOMAIN cache \cup {comment.Hash} |-> IF h = comment.Hash THEN TRUE ELSE cache[h]]

clearProcessedCache == EmptyMap

\* ------------------------------------------------------------------------
\* main.go: handleFileChange and what it calls
\* ------------------------------------------------------------------------
\* an entry of the disk: a missing (or unreadable) file, or a file with its lines
NoFile == [exists |-> FALSE, lines |-> <<>>]
FileOf(c) == [exists |-> TRUE, lines |-> c]
PathA == <<"a", ".", "g", "o">>
PathB == <<"b", ".", "p", "y">>
WatchedPaths == {PathA, PathB}

PWhy == <<"#", " ", "w", "h", "y", " ", "a", "i", "?">>

\* the contents the watched files are written with
FileFix == <<GFix>>
FileTwo == <<GFix, GBlank, GWhy>>
FileCtx == <<GNote, GCode>>
FilePy == <<PWhy>>
Contents == {FileFix, FileTwo, FileCtx, FilePy}

\* files.go: the cheap test for a marker anywhere in the file's text
hasAIComments(lines) ==
    LET lowerContent == ToLower(Join(lines, Nl))
    IN  Contains(lowerContent, AiQuestion) \/ Contains(lowerContent, AiBang)
            \/ Contains(lowerContent, AiColon)

SeqToSet(q) == {q[k] : k \in 1..Len(q)}

\* the ':' records of every file that passes the cheap test; the order the files
\* are found in is not fixed, so the result is kept as a set
collectAllContextComments(d) ==
    UNION { {c \in SeqToSet(ExtractAIComments(p, d[p].lines)) : c.ActionType = ":"} :
            p \in {q \in DOMAIN d : d[q].exists /\ hasAIComments(d[q].lines)} }

\* as unprocessedOf, with the ':' records taken too
unprocessedOfAnyType(comments, cache) ==
    LET New(c) == ~isCommentProcessed(cache, c)
    IN  SelectSeq(comments, New)

\* the '?' and '!' records not yet in the cache, in the order extracted
unprocessedOf(comments, cache) ==
    LET New(c) == c.ActionType \in {"?", "!"} /\ ~isCommentProcessed(cache, c)
    IN  SelectSeq(comments, New)

\* the prompt, by the template chosen and the records it is rendered from
promptOf(unprocessedComments, contextComments) ==
    [template |-> IF Len(unprocessedComments) = 1 THEN "renderCommentPrompt"
                  ELSE "renderMultipleCommentsPrompt",
     comments |-> unprocessedComments,
     context |-> contextComments]

Enter == 13
SendResults == {"ok", "text_error", "enter_error"}

\* SendCommand: the writes that reached stdin, by where a write failed
SendCommand(command, result) ==
    CASE result = "text_error" -> <<>>
      [] result = "enter_error" -> <<command>>
      [] result = "ok" -> <<command, Enter>>

RECURSIVE markAll(_, _)
markAll(cache, comments) ==
    IF Len(comments) = 0 THEN cache
    ELSE markAll(markCommentProcessed(cache, comments[1]), Tail(comments))

\* as cacheAfterSend, with the result of SendCommand not looked at
cacheAfterSendAlways(cache, unprocessedComments, result) == markAll(cache, unprocessedComments)

\* the cache after SendCommand returned
cacheAfterSend(cache, unprocessedComments, result) ==
    IF result = "ok" THEN markAll(cache, unprocessedComments) ELSE cache

Hashes(comments) == {comments[k].Hash : k \in 1..Len(comments)}

NoEvent == [file |-> NoFile, outcome |-> "none", attempted |-> <<>>, retry |-> FALSE]

EventOf(p, outcome, attempted) ==
    [lastEvent EXCEPT ![p] =
        [file |-> disk[p], outcome |-> outcome, attempted |-> attempted,
         \* the event before this one, for the same file as it is now, failed to send
         retry |-> lastEvent[p].outcome = "send_error" /\ lastEvent[p].file = disk[p]]]

HandleFileChange(p, result) ==
    /\ eventNo < MaxEvents
    /\ eventNo' = eventNo + 1
    /\ lastPath' = p
    /\ IF ~disk[p].exists
       THEN \* ExtractAIComments failed to read the file
            /\ lastEvent' = EventOf(p, "extract_error", <<>>)
            /\ UNCHANGED <<processedComments, stdin, sentOk>>
       ELSE LET comments == ExtractAIComments(p, disk[p].lines)
                unprocessedComments == unprocessedOf(comments, processedComments)
            IN  IF Len(comments) = 0
                THEN /\ lastEvent' = EventOf(p, "no_comments", <<>>)
                     /\ UNCHANGED <<processedComments, stdin, sentOk>>
                ELSE IF Len(unprocessedComments) = 0
                THEN /\ lastEvent' = EventOf(p, "nothing_new", <<>>)
                     /\ UNCHANGED <<processedComments, stdin, sentOk>>
                ELSE /\ stdin' = SendCommand(promptOf(unprocessedComments,
                                                      collectAllContextComments(disk)), result)
                     /\ processedComments' =
                            cacheAfterSend(processedComments, unprocessedComments, result)
                     /\ sentOk' = IF result = "ok"
                                  THEN sentOk \cup Hashes(unprocessedComments) ELSE sentOk
                     /\ lastEvent' = EventOf(p, IF result = "ok" THEN "sent" ELSE "send_error",
                                              unprocessedComments)
    /\ UNCHANGED <<disk, extractVars, cacheVars, pureVars>>

\* the environment: an editor writes or removes a watched file
WriteFile(p, c) ==
    /\ disk[p] # FileOf(c)
    /\ disk' = [disk EXCEPT ![p] = FileOf(c)]
    /\ UNCHANGED <<processedComments, stdin, eventNo, lastPath, lastEvent, sentOk,
                   extractVars, cacheVars, pureVars>>

RemoveFile(p) ==
    /\ disk[p] # NoFile
    /\ disk' = [disk EXCEPT ![p] = NoFile]
    /\ UNCHANGED <<processedComments, stdin, eventNo, lastPath, lastEvent, sentOk,
                   extractVars, cacheVars, pureVars>>

\* the operator resets the cache between events
ClearProcessedCache ==
    /\ processedComments # EmptyMap
    /\ processedComments' = clearProcessedCache
    /\ sentOk' = {}
    /\ UNCHANGED <<disk, stdin, eventNo, lastPath, lastEvent, extractVars, cacheVars,
                   pureVars>>

InitIdleExtract ==
    /\ xIn = [family |-> "none", words |-> <<>>]
    /\ xPath = <<>>
    /\ xLines = <<>>
    /\ xExists = FALSE
    /\ xErr = ""
    /\ xRead = FALSE
    /\ xOp = ""
    /\ xComments = <<>>

InitIdleHash ==
    /\ hPair = <<>>
    /\ hOut = <<>>

InitIdleRender ==
    /\ rComments = <<>>
    /\ rContext = <<>>
    /\ rOp = ""
    /\ rOut = <<>>

InitIdleInput ==
    /\ uInput = <<>>
    /\ uPos = 0
    /\ uOutput = <<>>
    /\ insertMode = FALSE
    /\ pendingSearches = 0

InitIdleFind ==
    /\ gitIgnore = [rootDir |-> <<".">>, isGitRepo |-> FALSE, ignoredFiles |-> {}]
    /\ tree = <<>>
    /\ walked = 0
    /\ fileCount = 0
    /\ skipAll = FALSE
    /\ checks = <<>>
    /\ foundFiles = <<>>
    /\ returned = [done |-> FALSE, files |-> <<>>, err |-> "nil"]

InitIdleParse ==
    /\ pContent = <<>>
    /\ pDiffs = <<>>
    /\ pOp = ""

InitIdleOutput ==
    /\ ptyStream = <<>>
    /\ ptyRead = 0
    /\ readEnded = FALSE
    /\ bufData = <<>>
    /\ bufTimer = FALSE
    /\ firedFlushes = 0
    /\ stdoutWritten = <<>>
    /\ currentLine = <<>>
    /\ lastNonEmptyLine = <<>>
    /\ isInsertMode = FALSE

InitIdleDetector ==
    /\ consecutiveCount = 0
    /\ isHeld = FALSE
    /\ pendingTimer = 0
    /\ pendingCallback = 0
    /\ armedTimers = {}
    /\ firedTimers = {}
    /\ registered = 0
    /\ executions = <<>>
    /\ cancelled = {}

InitIdleWatchMode ==
    /\ watching = FALSE
    /\ pager = <<>>
    /\ lastHash = <<>>
    /\ capture = [err |-> FALSE, content |-> <<>>]
    /\ checkCount = 0
    /\ shown = <<>>
    /\ currentPagerCmd = 0
    /\ pagerKilledByUs = FALSE
    /\ pagerDone = <<>>
    /\ pagers = <<>>

InitIdleTasks ==
    /\ handlers = <<>>
    /\ searchers = <<>>
    /\ cacheLog = <<>>

InitIdleLater ==
    /\ InitIdleOutput
    /\ InitIdleDetector
    /\ InitIdleWatchMode
    /\ InitIdleTasks

InitIdleOther ==
    /\ InitIdleFind
    /\ InitIdleParse
    /\ InitIdleLater

InitIdleWatch ==
    /\ disk = [p \in WatchedPaths |-> NoFile]
    /\ stdin = <<>>
    /\ eventNo = 0
    /\ lastPath = PathA
    /\ lastEvent = [p \in WatchedPaths |-> NoEvent]
    /\ sentOk = {}

InitIdleCache ==
    /\ calls = <<>>
    /\ answer = [hash |-> <<>>, result |-> FALSE, at |-> 0]

Init ==
    /\ processedComments = EmptyMap
    /\ InitIdleWatch
    /\ InitIdleExtract
    /\ InitIdleCache
    /\ InitIdleHash
    /\ InitIdleRender
    /\ InitIdleInput
    /\ InitIdleOther

Next ==
    \/ \E p \in WatchedPaths, result \in SendResults : HandleFileChange(p, result)
    \/ \E p \in WatchedPaths, c \in Contents : WriteFile(p, c)
    \/ \E p \in WatchedPaths : RemoveFile(p)
    \/ ClearProcessedCache

Spec == Init /\ [][Next]_vars

\* ------------------------------------------------------------------------
\* The cache called directly (as the tests do): SpecCache
\* ------------------------------------------------------------------------
TestPath == <<"t", "e", "s", "t", ".", "g", "o">>
TestContent == <<"T", "e", "s", "t", " ", "c", "o", "m", "m", "e", "n", "t">>

TestComment(line, actionType) ==
    LET c == [FilePath |-> TestPath, LineNumber |-> line, Content |-> TestContent,
              ActionType |-> actionType]
    IN  [FilePath |-> TestPath, LineNumber |-> line, Content |-> TestContent,
         ActionType |-> actionType, Hash |-> generateCommentHash(c)]

TestComments == {TestComment(5, "?"), TestComment(6, "?"), TestComment(5, "!")}

CallMarkCommentProcessed(c) ==
    /\ Len(calls) < MaxCalls
    /\ processedComments' = markCommentProcessed(processedComments, c)
    /\ calls' = Append(calls, [op |-> "mark", hash |-> c.Hash])
    /\ UNCHANGED <<answer, extractVars, watchVars, pureVars>>

CallClearProcessedCache ==
    /\ Len(calls) < MaxCalls
    /\ processedComments' = clearProcessedCache
    /\ calls' = Append(calls, [op |-> "clear", hash |-> <<>>])
    /\ UNCHANGED <<answer, extractVars, watchVars, pureVars>>

\* the answer is kept with the number of calls made before it was given
CallIsCommentProcessed(c) ==
    /\ answer' = [hash |-> c.Hash, result |-> isCommentProcessed(processedComments, c),
                  at |-> Len(calls)]
    /\ UNCHANGED <<processedComments, calls, extractVars, watchVars, pureVars>>

NextCache ==
    \/ \E c \in TestComments : CallMarkCommentProcessed(c)
    \/ CallClearProcessedCache
    \/ \E c \in TestComments : CallIsCommentProcessed(c)

SpecCache == Init /\ [][NextCache]_vars

\* ------------------------------------------------------------------------
\* The extraction run on one source text: SpecExtract
\* ------------------------------------------------------------------------
\* as ExtractAICommentsOfFile, with the file read before the extension is looked up
ExtractAICommentsReadFirst(filePath, file) ==
    IF ~file.exists
    THEN [comments |-> <<>>, err |-> "failed to read file", read |-> TRUE]
    ELSE [comments |-> ExtractAIComments(filePath, file.lines), err |-> "", read |-> TRUE]

\* ExtractAIComments from its start: the lookup of the extension, then
\* os.ReadFile, then the extraction on the lines read; a nil slice is <<>>
ExtractAICommentsOfFile(filePath, file) ==
    IF Ext(filePath) \notin SupportedExts
    THEN [comments |-> <<>>, err |-> "", read |-> FALSE]
    ELSE IF ~file.exists
    THEN [comments |-> <<>>, err |-> "failed to read file", read |-> TRUE]
    ELSE [comments |-> ExtractAIComments(filePath, file.lines), err |-> "", read |-> TRUE]

\* the files of the "paths" family are readable or not; every other file is
InitExtract ==
    /\ processedComments = EmptyMap
    /\ InitIdleWatch
    /\ InitIdleCache
    /\ InitIdleHash
    /\ InitIdleRender
    /\ InitIdleInput
    /\ InitIdleOther
    /\ \E in \in ExtractInputs, exists \in BOOLEAN :
        /\ exists \/ in.family = "paths"
        /\ xIn = [family |-> in.family, words |-> in.words]
        /\ xPath = in.path
        /\ xLines = in.lines
        /\ xExists = exists
    /\ xErr = ""
    /\ xRead = FALSE
    /\ xOp = ""
    /\ xComments = <<>>

RunExtractAIComments ==
    /\ xOp = ""
    /\ xOp' = "ExtractAIComments"
    /\ LET r == ExtractAICommentsOfFile(xPath, IF xExists THEN FileOf(xLines) ELSE NoFile)
       IN  /\ xComments' = r.comments
           /\ xErr' = r.err
           /\ xRead' = r.read
    /\ UNCHANGED <<xIn, xPath, xLines, xExists, processedComments, watchVars, cacheVars,
                   pureVars>>

\* called by ExtractAIComments with the lines of a file that was read
RunExtractSingleLineComments ==
    /\ xOp = ""
    /\ xExists
    /\ xOp' = "extractSingleLineComments"
    /\ xComments' = extractSingleLineComments(xPath, xLines)
    /\ UNCHANGED <<xIn, xPath, xLines, xExists, xErr, xRead, processedComments, watchVars,
                   cacheVars, pureVars>>

NextExtract ==
    \/ RunExtractAIComments
    \/ RunExtractSingleLineComments

SpecExtract == InitExtract /\ [][NextExtract]_vars

\* ------------------------------------------------------------------------
\* main.go: the prompt renderers
\* ------------------------------------------------------------------------
\* as locationStr, with the one-line wording for every record
locationStrAlwaysLine(comment) == <<"l", "i", "n", "e", " ">> \o Itoa(comment.LineNumber)

\* "line N" or "lines N-M": the wording every renderer computes for a record
locationStr(comment) ==
    IF comment.EndLine = 0 \/ comment.EndLine = comment.LineNumber
    THEN <<"l", "i", "n", "e", " ">> \o Itoa(comment.LineNumber)
    ELSE <<"l", "i", "n", "e", "s", " ">> \o Itoa(comment.LineNumber) \o <<"-">>
            \o Itoa(comment.EndLine)

SeeText == <<"S", "e", "e", " ">>
AtText == <<" ", "a", "t", " ">>
CommandTail ==
    <<" ", "a", "n", "d", " ", "s", "u", "r", "r", "o", "u", "n", "d", "i", "n", "g",
      " ", "c", "o", "n", "t", "e", "x", "t", ".", " ", "M", "a", "k", "e", " ", "t",
      "h", "e", " ", "a", "p", "p", "r", "o", "p", "r", "i", "a", "t", "e", " ", "c",
      "h", "a", "n", "g", "e", "s", ".", " ", "Y", "O", "U", " ", "M", "U", "S", "T",
      " ", "r", "e", "p", "l", "a", "c", "e", " ", "t", "h", "e", " ", "A", "I", "!",
      " ", "m", "a", "r", "k", "e", "r", " ", "w", "i", "t", "h", " ", "[", "a", "i",
      "]", " ", "w", "h", "e", "n", " ", "d", "o", "n", "e", ".">>
QuestionTail ==
    <<" ", "a", "n", "d", " ", "s", "u", "r", "r", "o", "u", "n", "d", "i", "n", "g",
      " ", "c", "o", "n", "t", "e", "x", "t", ".", " ", "A", "n", "s", "w", "e", "r",
      " ", "t", "h", "e", " ", "q", "u", "e", "s", "t", "i", "o", "n", "(", "s", ")",
      ",", " ", "b", "u", "t", " ", "D", "O", " ", "N", "O", "T", " ", "M", "A", "K",
      "E", " ", "C", "H", "A", "N", "G", "E", "S", ".", " ", "R", "e", "p", "l", "a",
      "c", "e", " ", "t", "h", "e", " ", "A", "I", "?", " ", "m", "a", "r", "k", "e",
      "r", " ", "w", "i", "t", "h", " ", "[", "a", "i", "]", " ", "w", "h", "e", "n",
      " ", "d", "o", "n", "e", ".">>
ExtraText ==
    <<"E", "x", "t", "r", "a", " ", "f", "r", "o", "m", " ", "c", "o", "d", "e", " ",
      "c", "o", "m", "m", "e", "n", "t", " ", "a", "t", " ">>
DefaultTail ==
    <<" ", "a", "n", "d", " ", "s", "u", "r", "r", "o", "u", "n", "d", "i", "n", "g",
      " ", "c", "o", "n", "t", "e", "x", "t", ".">>
RelatedContextText ==
    <<"\n", "\n", "R", "e", "l", "a", "t", "e", "d", " ", "c", "o", "n", "t", "e",
      "x", "t", ":", "\n">>
CommandHead ==
    <<"R", "e", "a", "d", " ", "t", "h", "e", " ", "f", "o", "l", "l", "o", "w", "i",
      "n", "g", " ", "l", "o", "c", "a", "t", "i", "o", "n", "s", " ", "a", "n", "d",
      " ", "s", "u", "r", "r", "o", "u", "n", "d", "i", "n", "g", " ", "c", "o", "n",
      "t", "e", "x", "t", ",", " ", "a", "n", "d", " ", "m", "a", "k", "e", " ", "t",
      "h", "e", " ", "a", "p", "p", "r", "o", "p", "r", "i", "a", "t", "e", " ", "c",
      "h", "a", "n", "g", "e", "s", " ", "m", "e", "n", "t", "i", "o", "n", "e", "d",
      " ", "i", "n", " ", "t", "h", "e", " ", "c", "o", "m", "m", "e", "n", "t", "s",
      ".", " ", "R", "e", "p", "l", "a", "c", "e", " ", "t", "h", "e", " ", "A", "I",
      "!", " ", "m", "a", "r", "k", "e", "r", "s", " ", "w", "i", "t", "h", " ", "[",
      "a", "i", "]", " ", "w", "h", "e", "n", " ", "d", "o", "n", "e", ":", "\n",
      "\n">>
QuestionHead ==
    <<"R", "e", "a", "d", " ", "t", "h", "e", " ", "f", "o", "l", "l", "o", "w", "i",
      "n", "g", " ", "l", "o", "c", "a", "t", "i", "o", "n", "s", " ", "a", "n", "d",
      " ", "s", "u", "r", "r", "o", "u", "n", "d", "i", "n", "g", " ", "c", "o", "n",
      "t", "e", "x", "t", ",", " ", "a", "n", "d", " ", "a", "n", "s", "w", "e", "r",
      " ", "t", "h", "e", " ", "q", "u", "e", "s", "t", "i", "o", "n", "(", "s", ")",
      " ", "i", "n", " ", "t", "h", "e", " ", "c", "o", "m", "m", "e", "n", "t", "s",
      ".", " ", "D", "O", " ", "N", "O", "T", " ", "M", "A", "K", "E", " ", "C", "H",
      "A", "N", "G", "E", "S", ".", " ", "R", "e", "p", "l", "a", "c", "e", " ", "t",
      "h", "e", " ", "A", "I", "?", " ", "m", "a", "r", "k", "e", "r", "s", " ", "w",
      "i", "t", "h", " ", "[", "a", "i", "]", " ", "w", "h", "e", "n", " ", "d", "o",
      "n", "e", ":", "\n", "\n">>
AdditionalContextText ==
    <<"\n", "A", "d", "d", "i", "t", "i", "o", "n", "a", "l", " ", "c", "o", "n",
      "t", "e", "x", "t", ":", "\n">>
ContextFromText == <<"C", "o", "n", "t", "e", "x", "t", " ", "f", "r", "o", "m", " ">>
\* the bullet character U+2022, kept as one element of the text
Bullet == <<"(U+2022)">>
Colon == <<":">>

\* the "Related context" section of renderCommentPrompt
RECURSIVE relatedContext(_)
relatedContext(contextComments) ==
    IF Len(contextComments) = 0 THEN <<>>
    ELSE LET ctx == contextComments[1]
         IN  Nl \o ctx.FilePath \o AtText \o <<"-", " ">> \o locationStr(ctx) \o Colon \o Nl
                \o <<" ", " ">> \o ctx.Content \o Nl \o relatedContext(Tail(contextComments))

renderCommentPrompt(comment, contextComments) ==
    LET where == comment.FilePath \o AtText \o locationStr(comment)
        prompt == CASE comment.ActionType = "!" -> SeeText \o where \o CommandTail
                    [] comment.ActionType = "?" -> SeeText \o where \o QuestionTail
                    [] comment.ActionType = ":" -> ExtraText \o where
                    [] OTHER -> SeeText \o where \o DefaultTail
    IN  IF Len(contextComments) > 0
        THEN prompt \o RelatedContextText \o relatedContext(contextComments)
        ELSE prompt

\* as hasAction, with the first record of the batch looked at only
hasActionFirstOnly(comments) == Len(comments) > 0 /\ comments[1].ActionType = "!"

hasAction(comments) == \E k \in 1..Len(comments) : comments[k].ActionType = "!"

RECURSIVE bulletLines(_)
bulletLines(comments) ==
    IF Len(comments) = 0 THEN <<>>
    ELSE Bullet \o Sp \o comments[1].FilePath \o AtText \o locationStr(comments[1]) \o Nl
            \o bulletLines(Tail(comments))

\* the "Additional context" section of renderMultipleCommentsPrompt
RECURSIVE additionalContext(_)
additionalContext(contextComments) ==
    IF Len(contextComments) = 0 THEN <<>>
    ELSE LET ctx == contextComments[1]
         IN  Nl \o ctx.FilePath \o AtText \o locationStr(ctx) \o Colon \o Nl \o ctx.Content
                \o additionalContext(Tail(contextComments))

renderMultipleCommentsPrompt(comments, contextComments) ==
    (IF hasAction(comments) THEN CommandHead ELSE QuestionHead)
        \o bulletLines(comments)
        \o (IF Len(contextComments) > 0
            THEN AdditionalContextText \o additionalContext(contextComments)
            ELSE <<>>)

renderContextPrompt(comment) ==
    ContextFromText \o comment.FilePath \o AtText \o locationStr(comment) \o Colon \o Nl
        \o comment.Content

RECURSIVE renderMultipleContextPrompt(_)
renderMultipleContextPrompt(comments) ==
    IF Len(comments) = 0 THEN <<>>
    ELSE comments[1].FilePath \o AtText \o locationStr(comments[1]) \o Colon \o Nl
            \o comments[1].Content
            \o (IF Len(comments) > 1
                THEN Nl \o Nl \o renderMultipleContextPrompt(Tail(comments))
                ELSE <<>>)

\* ------------------------------------------------------------------------
\* generateCommentHash called on two records: SpecHash
\* ------------------------------------------------------------------------
HashPathA == <<"a", ".", "g", "o">>
HashPathB == <<"a", ".", "g", "o", ":", "1">>
HashPaths == {HashPathA, HashPathB}
HashLineNumbers == {1, 2, 11}
HashContentA == <<"x">>
HashContentB == <<"1", ":", "x">>
HashContents == {HashContentA, HashContentB}
HashActionTypes == {"?", "!", ":"}

\* the fields the fingerprint does not read
HashRest ==
    {[EndLine |-> 0, FullLine |-> <<"/", "/">>, ContextLines |-> <<>>, Hash |-> <<>>],
     [EndLine |-> 12, FullLine |-> <<"/", "*">>, ContextLines |-> <<>>, Hash |-> <<>>],
     [EndLine |-> 0, FullLine |-> <<"/", "/">>, ContextLines |-> <<HashContentA>>,
      Hash |-> <<"s", "t", "a", "l", "e">>]}

HashRecords ==
    {[FilePath |-> p, LineNumber |-> n, Content |-> c, ActionType |-> a,
      EndLine |-> r.EndLine, FullLine |-> r.FullLine, ContextLines |-> r.ContextLines,
      Hash |-> r.Hash] :
        p \in HashPaths, n \in HashLineNumbers, c \in HashContents, a \in HashActionTypes,
        r \in HashRest}

InitHash ==
    /\ processedComments = EmptyMap
    /\ InitIdleWatch
    /\ InitIdleExtract
    /\ InitIdleCache
    /\ InitIdleRender
    /\ InitIdleInput
    /\ InitIdleOther
    /\ hPair \in HashRecords \X HashRecords
    /\ hOut = <<>>

CallGenerateCommentHash ==
    /\ hOut = <<>>
    /\ hOut' = <<generateCommentHash(hPair[1]), generateCommentHash(hPair[2])>>
    /\ UNCHANGED <<hPair, processedComments, extractVars, watchVars, cacheVars, renderVars,
                   inputVars, otherVars>>

NextHash == CallGenerateCommentHash

SpecHash == InitHash /\ [][NextHash]_vars

\* ------------------------------------------------------------------------
\* The renderers called on records: SpecRender
\* ------------------------------------------------------------------------
\* LineNumber and EndLine of the records rendered: EndLine unset, equal to
\* LineNumber, and greater, with one and two digits
RenderSpans == {<<3, 0>>, <<3, 3>>, <<3, 14>>, <<12, 14>>}
RenderContent == <<"n", "o", "t", "e">>

RenderRecord(span, actionType) ==
    [FilePath |-> PathA, LineNumber |-> span[1], EndLine |-> span[2],
     Content |-> RenderContent, ActionType |-> actionType]

RenderRecords == {RenderRecord(sp, a) : sp \in RenderSpans, a \in {"!", "?", ":"}}

\* no context record, one of one line, or one of one line and one of several
RenderContexts ==
    {<<>>, <<RenderRecord(<<3, 0>>, ":")>>,
     <<RenderRecord(<<3, 3>>, ":"), RenderRecord(<<3, 14>>, ":")>>}

InitRender ==
    /\ processedComments = EmptyMap
    /\ InitIdleWatch
    /\ InitIdleExtract
    /\ InitIdleCache
    /\ InitIdleHash
    /\ InitIdleInput
    /\ InitIdleOther
    /\ rComments \in SeqsUpTo(RenderRecords, MaxBatch)
    /\ rContext \in RenderContexts
    /\ rOp = ""
    /\ rOut = <<>>

Rendered(op, out) ==
    /\ rOp = ""
    /\ rOp' = op
    /\ rOut' = out
    /\ UNCHANGED <<rComments, rContext, processedComments, extractVars, watchVars, cacheVars,
                   hashVars, inputVars, otherVars>>

CallRenderCommentPrompt ==
    /\ Len(rComments) = 1
    /\ Rendered("renderCommentPrompt", renderCommentPrompt(rComments[1], rContext))

CallRenderMultipleCommentsPrompt ==
    Rendered("renderMultipleCommentsPrompt", renderMultipleCommentsPrompt(rComments, rContext))

CallRenderContextPrompt ==
    /\ Len(rComments) = 1
    /\ rContext = <<>>
    /\ Rendered("renderContextPrompt", renderContextPrompt(rComments[1]))

CallRenderMultipleContextPrompt ==
    /\ rContext = <<>>
    /\ Rendered("renderMultipleContextPrompt", renderMultipleContextPrompt(rComments))

NextRender ==
    \/ CallRenderCommentPrompt
    \/ CallRenderMultipleCommentsPrompt
    \/ CallRenderContextPrompt
    \/ CallRenderMultipleContextPrompt

SpecRender == InitRender /\ [][NextRender]_vars

\* ------------------------------------------------------------------------
\* main.go: processUserInput and the manual search: SpecInput
\* ------------------------------------------------------------------------
CtrlSlash == 31
CtrlN == 14
CtrlP == 16
CtrlJ == 10
Backslash == 92
Escape == 27
LeftBracket == 91
LetterA == 65
LetterB == 66

\* as forwardedFor, with Enter forwarded bare in INSERT mode too
forwardedForBareEnter(b, insert) ==
    CASE b = CtrlSlash -> <<>>
      [] b = CtrlN -> <<Escape, LeftBracket, LetterB>>
      [] b = CtrlP -> <<Escape, LeftBracket, LetterA>>
      [] b = CtrlJ -> <<Enter>>
      [] b = Enter -> <<Enter>>
      [] OTHER -> <<b>>

\* one turn of the loop of processUserInput, with EnableHeldEnterDetection off:
\* what is appended to processedInput for the byte b
forwardedFor(b, insert) ==
    CASE b = CtrlSlash -> <<>>
      [] b = CtrlN -> <<Escape, LeftBracket, LetterB>>
      [] b = CtrlP -> <<Escape, LeftBracket, LetterA>>
      [] b = CtrlJ -> <<Enter>>
      [] b = Enter -> IF insert THEN <<Backslash, Enter>> ELSE <<Enter>>
      [] OTHER -> <<b>>

\* the files the search reads: those that pass the cheap test of the walk
filesWithAIComments(d) == {p \in DOMAIN d : d[p].exists /\ hasAIComments(d[p].lines)}

IsContextRecord(c) == c.ActionType = ":"

\* as contextCommentsOf, with the records of every action type taken
RECURSIVE contextCommentsOfAnyType(_, _)
contextCommentsOfAnyType(d, files) ==
    IF Len(files) = 0 THEN <<>>
    ELSE ExtractAIComments(files[1], d[files[1]].lines)
            \o contextCommentsOfAnyType(d, Tail(files))

\* the ':' records of the files, taken file by file in the order given
RECURSIVE contextCommentsOf(_, _)
contextCommentsOf(d, files) ==
    IF Len(files) = 0 THEN <<>>
    ELSE SelectSeq(ExtractAIComments(files[1], d[files[1]].lines), IsContextRecord)
            \o contextCommentsOf(d, Tail(files))

\* the context prompt, by the template chosen and the records it is rendered from
contextPromptOf(allUnprocessedComments) ==
    [template |-> IF Len(allUnprocessedComments) = 1 THEN "renderContextPrompt"
                  ELSE "renderMultipleContextPrompt",
     comments |-> allUnprocessedComments,
     context |-> {}]

\* the orders a set of files can be returned in
OrdersOf(S) == {q \in [1..Cardinality(S) -> S] : \A i, j \in DOMAIN q : q[i] = q[j] => i = j}

HNote == <<"#", " ", "A", "I", ":", " ", "n", "o", "t", "e">>
FileNotes == <<GNote, GCode, GNote>>
FileMixed == <<GNote, GCode, GFix>>
FilePyNote == <<HNote>>
GCarriage == <<"/", "/", " ", "A", "I", ":", " ", "a", "\r", "b">>
FileCarriage == <<GCarriage>>

\* the repositories the search runs on
InputDisks ==
    {[p \in WatchedPaths |-> NoFile],
     (PathA :> FileOf(FileTwo)) @@ (PathB :> FileOf(FilePy)),
     (PathA :> FileOf(FileMixed)) @@ (PathB :> NoFile),
     (PathA :> FileOf(FileNotes)) @@ (PathB :> FileOf(FilePyNote)),
     (PathA :> FileOf(FileCarriage)) @@ (PathB :> NoFile)}

\* the bytes the user types: the special ones, and the backslash as any other byte
InputBytes == {Enter, CtrlJ, CtrlSlash, CtrlN, CtrlP, Backslash}

InitInput ==
    /\ InitIdleExtract
    /\ InitIdleCache
    /\ InitIdleHash
    /\ InitIdleRender
    /\ InitIdleOther
    /\ disk \in InputDisks
    /\ processedComments \in {EmptyMap, markAll(EmptyMap, ExtractAIComments(PathA, FileMixed))}
    /\ stdin = <<>>
    /\ eventNo = 0
    /\ lastPath = PathA
    /\ lastEvent = [p \in WatchedPaths |-> NoEvent]
    /\ sentOk = {}
    /\ uInput \in SeqsUpTo(InputBytes, MaxInput)
    /\ uPos = 0
    /\ uOutput = <<>>
    /\ insertMode \in BOOLEAN
    /\ pendingSearches = 0

\* one turn of the loop of processUserInput
ProcessUserInputByte ==
    /\ uPos < Len(uInput)
    /\ uPos' = uPos + 1
    /\ uOutput' = uOutput \o forwardedFor(uInput[uPos + 1], insertMode)
    /\ pendingSearches' = IF uInput[uPos + 1] = CtrlSlash THEN pendingSearches + 1
                          ELSE pendingSearches
    /\ UNCHANGED <<uInput, insertMode, processedComments, extractVars, watchVars, cacheVars,
                   hashVars, renderVars, otherVars>>

\* the wrapped program's output switches the detected mode
UpdateInsertMode ==
    /\ insertMode' = ~insertMode
    /\ UNCHANGED <<uInput, uPos, uOutput, pendingSearches, processedComments, extractVars,
                   watchVars, cacheVars, hashVars, renderVars, otherVars>>

\* the goroutine started for a Ctrl+/: the files come in any order, and the one
\* write to stdin succeeds or fails
TriggerAICommentSearch(files, result) ==
    /\ pendingSearches > 0
    /\ pendingSearches' = pendingSearches - 1
    /\ LET allUnprocessedComments == contextCommentsOf(disk, files)
       IN  IF Len(allUnprocessedComments) = 0 THEN stdin' = stdin
           ELSE stdin' = IF result = "ok" THEN <<contextPromptOf(allUnprocessedComments)>>
                         ELSE <<>>
    /\ UNCHANGED <<uInput, uPos, uOutput, insertMode, processedComments, disk, eventNo,
                   lastPath, lastEvent, sentOk, extractVars, cacheVars, hashVars, renderVars,
                   otherVars>>

NextInput ==
    \/ ProcessUserInputByte
    \/ UpdateInsertMode
    \/ \E files \in OrdersOf(filesWithAIComments(disk)), result \in {"ok", "text_error"} :
            TriggerAICommentSearch(files, result)

SpecInput == InitInput /\ [][NextInput]_vars

\* ------------------------------------------------------------------------
\* files.go: FindFilesWithAIComments: SpecFind
\* ------------------------------------------------------------------------
maxFilesToSearch == 2
maxFileSize == 2

Slash == <<"/">>
Dot == <<".">>

\* filepath.Dir and filepath.Base of a clean path
filepathDir(path) ==
    LET slashes == {k \in 1..Len(path) : path[k] = "/"}
    IN  IF slashes = {} THEN Dot
        ELSE IF SetMax(slashes) = 1 THEN Slash
        ELSE SubSeq(path, 1, SetMax(slashes) - 1)

filepathBase(path) ==
    LET slashes == {k \in 1..Len(path) : path[k] = "/"}
    IN  IF path = Slash \/ slashes = {} THEN path
        ELSE SubSeq(path, SetMax(slashes) + 1, Len(path))

\* filepath.Join of a root directory and a path below it
filepathJoin(root, rel) == IF root = Dot THEN rel ELSE root \o Slash \o rel

\* the directories the loop of IsIgnored looks up: the parents of the path, up
\* to "." or "/"
RECURSIVE parentDirs(_)
parentDirs(path) ==
    LET dir == filepathDir(path)
    IN  IF dir = Dot \/ dir = Slash THEN {} ELSE {dir} \cup parentDirs(dir)

IsIgnored(g, path) ==
    path \in g.ignoredFiles \/ parentDirs(path) \cap g.ignoredFiles # {}

DotGit == <<".", "g", "i", "t">>
NodeModules == <<"n", "o", "d", "e", "_", "m", "o", "d", "u", "l", "e", "s">>
PyCache == <<"_", "_", "p", "y", "c", "a", "c", "h", "e", "_", "_">>
PytestCache == <<".", "p", "y", "t", "e", "s", "t", "_", "c", "a", "c", "h", "e">>
Vendor == <<"v", "e", "n", "d", "o", "r">>
Build == <<"b", "u", "i", "l", "d">>
Dist == <<"d", "i", "s", "t">>
ignoredDirs == {NodeModules, PyCache, PytestCache, Vendor, Build, Dist}
TestCommentsGo ==
    <<"t", "e", "s", "t", "_", "c", "o", "m", "m", "e", "n", "t", "s", ".", "g", "o">>
CommentTestGo ==
    <<"c", "o", "m", "m", "e", "n", "t", "_", "t", "e", "s", "t", ".", "g", "o">>

\* the early returns of the walk callback between the count and wg.Add
skipped(g, path) ==
    LET dirPath == filepathDir(path)
        dirName == filepathBase(dirPath)
    IN  \/ g.isGitRepo /\ (IsIgnored(g, path) \/ IsIgnored(g, dirPath))
        \/ dirName = DotGit \/ (HasPrefix(dirName, Dot) /\ dirName # Dot)
        \/ dirName \in ignoredDirs
        \/ filepathBase(path) \in {TestCommentsGo, CommentTestGo}

\* as overLimit, with the limit never reached
overLimitNever(count) == FALSE

overLimit(count) == count > maxFilesToSearch

\* as waitDone, without waiting
waitDoneNever(c) == TRUE

\* wg.Wait(): every goroutine started has called wg.Done()
waitDone(c) == \A i \in DOMAIN c : c[i] \in {"none", "done"}

\* hasAIComments on a file of the tree: the size test, then the marker test
hasAICommentsOfFile(file) == file.size <= maxFileSize /\ hasAIComments(file.lines)

RepoRoot == <<"/", "r", "e", "p", "o">>
HiddenGo == <<".", "c", "a", "c", "h", "e", "/", "h", ".", "g", "o">>
BigGo == <<"b", "i", "g", ".", "g", "o">>
EdgeGo == <<"e", "d", "g", "e", ".", "g", "o">>
NestedGo ==
    <<"n", "o", "d", "e", "_", "m", "o", "d", "u", "l", "e", "s", "/", "p", "k", "g",
      "/", "n", ".", "g", "o">>
DirectGo ==
    <<"n", "o", "d", "e", "_", "m", "o", "d", "u", "l", "e", "s", "/", "m", ".", "g",
      "o">>
NotesTxt == <<"n", "o", "t", "e", "s", ".", "t", "x", "t">>
PlainGo == <<"p", "l", "a", "i", "n", ".", "g", "o">>
SecretGo == <<"s", "e", "c", "r", "e", "t", ".", "g", "o">>

TreeFile(rel, lines, size) == [rel |-> rel, lines |-> lines, size |-> size]

\* the files a tree is made of, in the lexical order of the walk
TreeFiles ==
    << TreeFile(HiddenGo, <<GNote>>, 1),
       TreeFile(PathA, <<GNote>>, 1),
       TreeFile(BigGo, <<GNote>>, maxFileSize + 1),
       TreeFile(CommentTestGo, <<GNote>>, 1),
       TreeFile(EdgeGo, <<GNote>>, maxFileSize),
       TreeFile(DirectGo, <<GNote>>, 1),
       TreeFile(NestedGo, <<GNote>>, 1),
       TreeFile(NotesTxt, <<GNote>>, 1),
       TreeFile(PlainGo, <<GCode>>, 1),
       TreeFile(SecretGo, <<GNote>>, 1) >>

\* the sequence of the elements of s at the positions in idx, in order
RECURSIVE Pick(_, _)
Pick(s, idx) ==
    IF idx = {} THEN <<>>
    ELSE <<s[SetMin(idx)]>> \o Pick(s, idx \ {SetMin(idx)})

Trees ==
    {Pick(TreeFiles, idx) : idx \in {x \in SUBSET DOMAIN TreeFiles :
                                        Cardinality(x) \in 1..MaxTree}}

\* what git ls-files reports as ignored, stored under the absolute path
GitIgnored == {filepathJoin(RepoRoot, SecretGo)}

GitIgnoreCaches ==
    {[rootDir |-> Dot, isGitRepo |-> FALSE, ignoredFiles |-> {}],
     [rootDir |-> Dot, isGitRepo |-> TRUE, ignoredFiles |-> GitIgnored],
     [rootDir |-> RepoRoot, isGitRepo |-> TRUE, ignoredFiles |-> GitIgnored]}

NotReturned == [done |-> FALSE, files |-> <<>>, err |-> "nil"]

InitFind ==
    /\ InitIdleExtract
    /\ InitIdleCache
    /\ InitIdleHash
    /\ InitIdleRender
    /\ InitIdleInput
    /\ InitIdleWatch
    /\ InitIdleParse
    /\ InitIdleLater
    /\ processedComments = EmptyMap
    /\ gitIgnore \in GitIgnoreCaches
    /\ tree \in Trees
    /\ walked = 0
    /\ fileCount = 0
    /\ skipAll = FALSE
    /\ checks = [i \in DOMAIN tree |-> "none"]
    /\ foundFiles = <<>>
    /\ returned = NotReturned

walkPath(i) == filepathJoin(gitIgnore.rootDir, tree[i].rel)

FindUnchanged == UNCHANGED <<gitIgnore, tree, processedComments, extractVars, watchVars,
                             cacheVars, hashVars, renderVars, inputVars, parseVars,
                             laterVars>>

\* the walk callback on the next file of the tree
WalkFile ==
    /\ ~returned.done /\ ~skipAll /\ walked < Len(tree)
    /\ walked' = walked + 1
    /\ LET path == walkPath(walked + 1)
       IN  IF Ext(path) \notin SupportedExts
           THEN UNCHANGED <<fileCount, skipAll, checks>>
           ELSE /\ fileCount' = fileCount + 1
                /\ skipAll' = overLimit(fileCount + 1)
                /\ checks' = IF ~overLimit(fileCount + 1) /\ ~skipped(gitIgnore, path)
                             THEN [checks EXCEPT ![walked + 1] = "started"]
                             ELSE checks
    /\ UNCHANGED <<foundFiles, returned>>
    /\ FindUnchanged

\* a goroutine's call of hasAIComments
CheckFile(i) ==
    /\ checks[i] = "started"
    /\ checks' = [checks EXCEPT ![i] = IF hasAICommentsOfFile(tree[i]) THEN "found"
                                       ELSE "done"]
    /\ UNCHANGED <<walked, fileCount, skipAll, foundFiles, returned>>
    /\ FindUnchanged

\* a goroutine's append under the mutex, and its wg.Done()
AppendFile(i) ==
    /\ checks[i] = "found"
    /\ foundFiles' = Append(foundFiles, walkPath(i))
    /\ checks' = [checks EXCEPT ![i] = "done"]
    /\ UNCHANGED <<walked, fileCount, skipAll, returned>>
    /\ FindUnchanged

\* the walk is over, wg.Wait() returns, and so does the function
ReturnFiles ==
    /\ ~returned.done
    /\ skipAll \/ walked = Len(tree)
    /\ waitDone(checks)
    /\ returned' = [done |-> TRUE, files |-> foundFiles, err |-> "nil"]
    /\ UNCHANGED <<walked, fileCount, skipAll, checks, foundFiles>>
    /\ FindUnchanged

NextFind ==
    \/ WalkFile
    \/ \E i \in DOMAIN tree : CheckFile(i)
    \/ \E i \in DOMAIN tree : AppendFile(i)
    \/ ReturnFiles

SpecFind == InitFind /\ [][NextFind]_vars

\* ------------------------------------------------------------------------
\* internal/diffparser/parser.go: Parse: SpecParse
\* ------------------------------------------------------------------------
RecordMark == "(U+23FA)"
CornerMark == "(U+23BF)"
ThereforeMark == "(U+2234)"

UpdateOpen == <<RecordMark, " ", "U", "p", "d", "a", "t", "e", "(">>
WriteOpen == <<RecordMark, " ", "W", "r", "i", "t", "e", "(">>
Ellipsis == <<".", ".", ".">>

\* the length of the longest prefix of s made of characters of the set cs
RECURSIVE runLength(_, _)
runLength(s, cs) ==
    IF Len(s) = 0 \/ s[1] \notin cs THEN 0 ELSE 1 + runLength(Tail(s), cs)

SpaceChars == {" ", "\t", "\n", "\f", "\r"}
DigitChars == {Digits[k] : k \in DOMAIN Digits}

Drop(s, n) == SubSeq(s, n + 1, Len(s))

\* updatePattern: the header's path runs to the last closing parenthesis
updatePrefix(line) ==
    IF HasPrefix(line, UpdateOpen) THEN Len(UpdateOpen)
    ELSE IF HasPrefix(line, WriteOpen) THEN Len(WriteOpen)
    ELSE 0

updateClose(line) ==
    LET closes == {k \in (updatePrefix(line) + 2)..Len(line) : line[k] = ")"}
    IN  IF updatePrefix(line) = 0 \/ closes = {} THEN 0 ELSE SetMax(closes)

matchUpdate(line) == updateClose(line) # 0
updatePath(line) == SubSeq(line, updatePrefix(line) + 1, updateClose(line) - 1)

matchSummary(line) ==
    LET rest == Drop(line, runLength(line, SpaceChars))
    IN  Len(rest) > 0 /\ rest[1] = CornerMark

matchEnd(line) ==
    \/ Len(line) > 0 /\ line[1] = ThereforeMark
    \/ Len(line) >= 3 /\ line[1] = RecordMark /\ line[2] = " " /\ line[3] \notin {"U", "W"}

matchBreak(line) == HasPrefix(Drop(line, runLength(line, SpaceChars)), Ellipsis)

\* the common start of the three line patterns: white space, then digits
numberStart(line) == runLength(line, SpaceChars)
numberDigits(line) == runLength(Drop(line, numberStart(line)), DigitChars)
isNumbered(line) == numberStart(line) >= 1 /\ numberDigits(line) >= 1
numberText(line) == SubSeq(line, numberStart(line) + 1, numberStart(line) + numberDigits(line))
afterNumber(line) == Drop(line, numberStart(line) + numberDigits(line))

matchChange(line) ==
    /\ isNumbered(line)
    /\ Len(afterNumber(line)) >= 2
    /\ afterNumber(line)[1] = " "
    /\ afterNumber(line)[2] \in {"-", "+"}

matchContext(line) ==
    /\ isNumbered(line)
    /\ Len(afterNumber(line)) >= 2
    /\ afterNumber(line)[1] = " "
    /\ afterNumber(line)[2] = " "

matchEmptyLine(line) ==
    /\ isNumbered(line)
    /\ runLength(afterNumber(line), SpaceChars) = Len(afterNumber(line))

DigitValue(c) == CHOOSE k \in 0..9 : Digits[k + 1] = c

RECURSIVE parseLineNum(_)
parseLineNum(s) ==
    IF Len(s) = 0 THEN 0
    ELSE parseLineNum(SubSeq(s, 1, Len(s) - 1)) * 10 + DigitValue(s[Len(s)])

\* the parsed form of a line that matches one of the three line patterns
DiffLine(type, content) == [Type |-> type, Content |-> content]

diffLineOf(line) ==
    IF matchChange(line)
    THEN DiffLine(IF afterNumber(line)[2] = "+" THEN "LineAdd" ELSE "LineDelete",
                  Drop(afterNumber(line), 2))
    ELSE IF matchContext(line) THEN DiffLine("LineContext", Drop(afterNumber(line), 2))
    ELSE DiffLine("LineContext", <<>>)

EmptyHunk == [StartLine |-> 0, Lines |-> <<>>]

\* if currentHunk.StartLine == 0 { currentHunk.StartLine = lineNum }
startLineAfter(hunk, lineNum) == IF hunk.StartLine = 0 THEN lineNum ELSE hunk.StartLine

\* the state of the loop: diffs, and currentDiff and currentHunk, which are nil
\* together (open is false)
ParseStart == [diffs |-> <<>>, open |-> FALSE, Path |-> <<>>, Hunks |-> <<>>, hunk |-> EmptyHunk]

\* currentDiff.Hunks with the current hunk appended when it has lines
hunksWithCurrent(st) == IF Len(st.hunk.Lines) > 0 THEN Append(st.Hunks, st.hunk) ELSE st.Hunks

\* diffs with the current diff appended, with its current hunk
diffsWithCurrent(st) ==
    IF st.open THEN Append(st.diffs, [Path |-> st.Path, Hunks |-> hunksWithCurrent(st)])
    ELSE st.diffs

\* one turn of the loop of Parse
parseLine(st, line) ==
    IF matchUpdate(line)
    THEN [diffs |-> diffsWithCurrent(st), open |-> TRUE, Path |-> updatePath(line),
          Hunks |-> <<>>, hunk |-> EmptyHunk]
    ELSE IF matchSummary(line) THEN st
    ELSE IF matchEnd(line)
    THEN [diffs |-> diffsWithCurrent(st), open |-> FALSE, Path |-> <<>>, Hunks |-> <<>>,
          hunk |-> EmptyHunk]
    ELSE IF ~st.open THEN st
    ELSE IF matchBreak(line)
    THEN IF Len(st.hunk.Lines) > 0
         THEN [st EXCEPT !.Hunks = Append(st.Hunks, st.hunk), !.hunk = EmptyHunk]
         ELSE st
    ELSE IF matchChange(line) \/ matchContext(line) \/ matchEmptyLine(line)
    THEN [st EXCEPT !.hunk = [StartLine |-> startLineAfter(st.hunk,
                                                parseLineNum(numberText(line))),
                              Lines |-> Append(st.hunk.Lines, diffLineOf(line))]]
    ELSE st

RECURSIVE parseLines(_, _)
parseLines(st, lines) ==
    IF Len(lines) = 0 THEN st ELSE parseLines(parseLine(st, lines[1]), Tail(lines))

\* Parse, on the lines strings.Split gives
Parse(lines) ==
    LET st == parseLines(ParseStart, lines)
    IN  IF st.open /\ Len(hunksWithCurrent(st)) > 0 THEN diffsWithCurrent(st) ELSE st.diffs

\* the lines of a hunk in unified form: the sign, then the content
RECURSIVE unifiedLines(_)
unifiedLines(lines) ==
    IF Len(lines) = 0 THEN <<>>
    ELSE (CASE lines[1].Type = "LineContext" -> <<" ">>
            [] lines[1].Type = "LineAdd" -> <<"+">>
            [] lines[1].Type = "LineDelete" -> <<"-">>)
         \o lines[1].Content \o Nl \o unifiedLines(Tail(lines))

RECURSIVE unifiedHunks(_)
unifiedHunks(hunks) ==
    IF Len(hunks) = 0 THEN <<>>
    ELSE <<"@", "@", " ", "-">> \o Itoa(hunks[1].StartLine) \o <<" ", "+">>
            \o Itoa(hunks[1].StartLine) \o <<" ", "@", "@">> \o Nl
            \o unifiedLines(hunks[1].Lines) \o unifiedHunks(Tail(hunks))

\* FileDiff.ToUnified
ToUnified(d) ==
    LET path == IF HasPrefix(d.Path, Slash) THEN d.Path ELSE Slash \o d.Path
    IN  <<"-", "-", "-", " ", "a">> \o path \o Nl
            \o <<"+", "+", "+", " ", "b">> \o path \o Nl
            \o unifiedHunks(d.Hunks)

LUpdate == <<"(U+23FA)", " ", "U", "p", "d", "a", "t", "e", "(", "a", ".", "g", "o", ")">>
LWrite == <<"(U+23FA)", " ", "W", "r", "i", "t", "e", "(", "b", ".", "g", "o", ")">>
LSummary == <<" ", " ", "(U+23BF)", " ", " ", "C", "h", "a", "n", "g", "e", "d", " ", "1", " ", "l", "i", "n", "e">>
LContext == <<" ", " ", " ", "3", " ", " ", "x">>
LAdd == <<" ", " ", " ", "4", " ", "+", "y">>
LZero == <<" ", " ", " ", "0", " ", " ", "w">>
LEmpty == <<" ", " ", " ", "5">>
LBreak == <<" ", ".", ".", ".">>
LThinking == <<"(U+2234)", " ", "T", "h", "i", "n", "k", "i", "n", "g">>
LBash == <<"(U+23FA)", " ", "B", "a", "s", "h", "(", "l", "s", ")">>
LWebSearch ==
    <<"(U+23FA)", " ", "W", "e", "b", " ", "S", "e", "a", "r", "c", "h", "(", "q", ")">>

DiffLines == {LUpdate, LWrite, LContext, LAdd, LZero, LEmpty, LBreak, LThinking, LBash,
              LWebSearch}

\* the outputs Parse is called on: a header and its summary line, then any lines
DiffContents == {<<LUpdate, LSummary>> \o rest : rest \in SeqsUpTo(DiffLines, MaxDiffLines)}

InitParse ==
    /\ InitIdleExtract
    /\ InitIdleCache
    /\ InitIdleHash
    /\ InitIdleRender
    /\ InitIdleInput
    /\ InitIdleWatch
    /\ InitIdleFind
    /\ InitIdleLater
    /\ processedComments = EmptyMap
    /\ pContent \in DiffContents
    /\ pDiffs = <<>>
    /\ pOp = ""

CallParse ==
    /\ pOp = ""
    /\ pOp' = "Parse"
    /\ pDiffs' = Parse(pContent)
    /\ UNCHANGED <<pContent, processedComments, extractVars, watchVars, cacheVars, hashVars,
                   renderVars, inputVars, findVars, laterVars>>

NextParse == CallParse

SpecParse == InitParse /\ [][NextParse]_vars

\* ------------------------------------------------------------------------
\* main.go: startThrottledOutput and updateInsertMode: SpecOutput
\* ------------------------------------------------------------------------
\* the variables of the specifications above
baseVars == <<processedComments, extractVars, watchVars, cacheVars, hashVars, renderVars,
              inputVars, findVars, parseVars>>

EscapeChar == "(U+001B)"
\* the bytes outside of 32..126 that the streams carry
NonPrintable == {"\n", "\r", "\t", EscapeChar}

InsertToken == <<"-", "-", " ", "I", "N", "S", "E", "R", "T", " ">>

\* the loop of updateInsertMode over the bytes of newData, on the two line buffers
RECURSIVE updateLines(_, _)
updateLines(b, newData) ==
    IF Len(newData) = 0 THEN b
    ELSE IF newData[1] \in {"\n", "\r"}
    THEN updateLines([currentLine |-> <<>>,
                      lastNonEmptyLine |-> IF Len(b.currentLine) > 0 THEN b.currentLine
                                           ELSE b.lastNonEmptyLine], Tail(newData))
    ELSE IF newData[1] \notin NonPrintable
    THEN updateLines([b EXCEPT !.currentLine = Append(b.currentLine, newData[1])],
                     Tail(newData))
    ELSE updateLines(b, Tail(newData))

\* as containsInsert, with the token looked for in the line being written too
containsInsertAnyLine(b) ==
    Contains(b.lastNonEmptyLine, InsertToken) \/ Contains(b.currentLine, InsertToken)

\* strings.Contains(lastLineStr, "-- INSERT ")
containsInsert(b) == Contains(b.lastNonEmptyLine, InsertToken)

\* buf.data after the timer's callback wrote it: buf.data[:0]
flushedData(d) == <<>>

StatusLine == <<"-", "-", " ", "I", "N", "S", "E", "R", "T", " ", "-", "-">>
OutputPieces == {StatusLine, <<"\n">>, <<"\r">>, <<"x">>, <<EscapeChar>>}

RECURSIVE Flatten(_)
Flatten(q) == IF Len(q) = 0 THEN <<>> ELSE q[1] \o Flatten(Tail(q))

\* what the wrapped program writes
OutputStreams == {Flatten(q) : q \in SeqsUpTo(OutputPieces, MaxPieces)}

\* how many bytes one Read returns at most
ReadSizes == {3, 7}

InitOutput ==
    /\ InitIdleExtract
    /\ InitIdleCache
    /\ InitIdleHash
    /\ InitIdleRender
    /\ InitIdleInput
    /\ InitIdleWatch
    /\ InitIdleFind
    /\ InitIdleParse
    /\ InitIdleDetector
    /\ InitIdleWatchMode
    /\ InitIdleTasks
    /\ processedComments = EmptyMap
    /\ ptyStream \in OutputStreams
    /\ ptyRead = 0
    /\ readEnded = FALSE
    /\ bufData = <<>>
    /\ bufTimer = FALSE
    /\ firedFlushes = 0
    /\ stdoutWritten = <<>>
    /\ currentLine = <<>>
    /\ lastNonEmptyLine = <<>>
    /\ isInsertMode = FALSE

OutputUnchanged == UNCHANGED <<ptyStream, baseVars, detectorVars, watchModeVars, taskVars>>

\* a Read that returns n bytes: they are appended to buf.data, looked at for the
\* INSERT line, and the timer is stopped and set again
ReadOutput(size) ==
    /\ ~readEnded /\ ptyRead < Len(ptyStream)
    /\ LET n == Min(size, Len(ptyStream) - ptyRead)
           newData == SubSeq(ptyStream, ptyRead + 1, ptyRead + n)
           b == updateLines([currentLine |-> currentLine,
                             lastNonEmptyLine |-> lastNonEmptyLine], newData)
       IN  /\ ptyRead' = ptyRead + n
           /\ bufData' = bufData \o newData
           /\ currentLine' = b.currentLine
           /\ lastNonEmptyLine' = b.lastNonEmptyLine
           /\ isInsertMode' = containsInsert(b)
    /\ bufTimer' = TRUE
    /\ UNCHANGED <<readEnded, firedFlushes, stdoutWritten>>
    /\ OutputUnchanged

\* the timer expires: its callback is started and waits for the mutex
TimerFires ==
    /\ bufTimer
    /\ bufTimer' = FALSE
    /\ firedFlushes' = firedFlushes + 1
    /\ UNCHANGED <<ptyRead, readEnded, bufData, stdoutWritten, currentLine, lastNonEmptyLine,
                   isInsertMode>>
    /\ OutputUnchanged

\* a callback of the timer runs under the mutex
FlushOutput ==
    /\ firedFlushes > 0
    /\ firedFlushes' = firedFlushes - 1
    /\ IF Len(bufData) > 0
       THEN /\ stdoutWritten' = stdoutWritten \o bufData
            /\ bufData' = flushedData(bufData)
       ELSE UNCHANGED <<stdoutWritten, bufData>>
    /\ UNCHANGED <<ptyRead, readEnded, bufTimer, currentLine, lastNonEmptyLine, isInsertMode>>
    /\ OutputUnchanged

\* the Read that returns an error: what is left in buf.data is written and the
\* loop returns
ReadError ==
    /\ ~readEnded
    /\ readEnded' = TRUE
    /\ stdoutWritten' = IF Len(bufData) > 0 THEN stdoutWritten \o bufData ELSE stdoutWritten
    /\ UNCHANGED <<ptyRead, bufData, bufTimer, firedFlushes, currentLine, lastNonEmptyLine,
                   isInsertMode>>
    /\ OutputUnchanged

NextOutput ==
    \/ \E size \in ReadSizes : ReadOutput(size)
    \/ TimerFires
    \/ FlushOutput
    \/ ReadError

SpecOutput == InitOutput /\ [][NextOutput]_vars

\* ------------------------------------------------------------------------
\* main.go: KeyRepeatDetector: SpecDetector
\* ------------------------------------------------------------------------
threshold == 3

\* as afterCallback, with the callback left in place
afterCallbackKept(callback) == callback

\* k.pendingCallback = nil, after the timer's function called it
afterCallback(callback) == 0

\* timer.Stop(): a timer that has expired is not stopped
stopTimer(timers, timer) == timers \ {timer}

InitDetector ==
    /\ InitIdleExtract
    /\ InitIdleCache
    /\ InitIdleHash
    /\ InitIdleRender
    /\ InitIdleInput
    /\ InitIdleWatch
    /\ InitIdleFind
    /\ InitIdleParse
    /\ InitIdleOutput
    /\ InitIdleWatchMode
    /\ InitIdleTasks
    /\ processedComments = EmptyMap
    /\ InitIdleDetector

DetectorUnchanged == UNCHANGED <<baseVars, outputVars, watchModeVars, taskVars>>

\* CheckHeld; late says that more than maxInterval passed since the last press
CheckHeld(late) ==
    /\ consecutiveCount < MaxPresses
    /\ IF consecutiveCount = 0 \/ late
       THEN consecutiveCount' = 1 /\ isHeld' = FALSE
       ELSE /\ consecutiveCount' = consecutiveCount + 1
            /\ isHeld' = (isHeld \/ consecutiveCount + 1 >= threshold)
    /\ UNCHANGED <<pendingTimer, pendingCallback, armedTimers, firedTimers, registered,
                   executions, cancelled>>
    /\ DetectorUnchanged

\* SetPendingAction with a new callback, numbered registered + 1, and a new timer
\* of the same number
SetPendingAction ==
    /\ registered < MaxCallbacks
    /\ registered' = registered + 1
    /\ pendingCallback' = registered + 1
    /\ pendingTimer' = registered + 1
    /\ armedTimers' = stopTimer(armedTimers, pendingTimer) \cup {registered + 1}
    /\ UNCHANGED <<consecutiveCount, isHeld, firedTimers, executions, cancelled>>
    /\ DetectorUnchanged

\* a timer expires: its function is started and waits for the mutex
TimerExpires(timer) ==
    /\ timer \in armedTimers
    /\ armedTimers' = armedTimers \ {timer}
    /\ firedTimers' = firedTimers \cup {timer}
    /\ UNCHANGED <<consecutiveCount, isHeld, pendingTimer, pendingCallback, registered,
                   executions, cancelled>>
    /\ DetectorUnchanged

\* the function of an expired timer runs under the mutex
TimerFunction(timer) ==
    /\ timer \in firedTimers
    /\ firedTimers' = firedTimers \ {timer}
    /\ IF pendingCallback # 0
       THEN /\ executions' = Append(executions, [callback |-> pendingCallback, by |-> "timer"])
            /\ pendingCallback' = afterCallback(pendingCallback)
       ELSE UNCHANGED <<executions, pendingCallback>>
    /\ UNCHANGED <<consecutiveCount, isHeld, pendingTimer, armedTimers, registered, cancelled>>
    /\ DetectorUnchanged

CancelPending ==
    /\ armedTimers' = stopTimer(armedTimers, pendingTimer)
    /\ pendingTimer' = 0
    /\ pendingCallback' = 0
    /\ cancelled' = IF pendingCallback # 0 THEN cancelled \cup {pendingCallback} ELSE cancelled
    /\ UNCHANGED <<consecutiveCount, isHeld, firedTimers, registered, executions>>
    /\ DetectorUnchanged

\* Reset: the pending callback is taken out under the mutex and started on its
\* own goroutine
ResetDetector ==
    /\ consecutiveCount' = 0
    /\ isHeld' = FALSE
    /\ armedTimers' = stopTimer(armedTimers, pendingTimer)
    /\ pendingTimer' = 0
    /\ pendingCallback' = 0
    /\ executions' = IF pendingCallback # 0
                     THEN Append(executions, [callback |-> pendingCallback, by |-> "Reset"])
                     ELSE executions
    /\ UNCHANGED <<firedTimers, registered, cancelled>>
    /\ DetectorUnchanged

NextDetector ==
    \/ \E late \in BOOLEAN : CheckHeld(late)
    \/ SetPendingAction
    \/ \E timer \in 1..MaxCallbacks : TimerExpires(timer)
    \/ \E timer \in 1..MaxCallbacks : TimerFunction(timer)
    \/ CancelPending
    \/ ResetDetector

SpecDetector == InitDetector /\ [][NextDetector]_vars

\* ------------------------------------------------------------------------
\* clawde-diff: runWatchMode, checkAndUpdate and the pager: SpecWatch
\* ------------------------------------------------------------------------
\* sha256.Sum256 printed in hex: an uninterpreted digest, taken to be collision-free
hashContent(content) == <<"sha256", content>>

LessPager == <<"l", "e", "s", "s", " ", "-", "R">>

\* what tmux.CapturePane can return
Captures ==
    {[err |-> TRUE, content |-> <<>>]}
    \cup {[err |-> FALSE, content |-> c] :
            c \in {<<LThinking>>, <<LUpdate, LSummary, LContext>>, <<LUpdate, LContext>>,
                   <<LUpdate, LSummary, LAdd>>, <<LUpdate, LSummary, LBash>>}}

\* diffs[len(diffs)-1].ToUnified() of diffparser.Parse(content), per capture;
\* empty where Parse finds no diff
latestUnified ==
    [c \in Captures |->
        LET diffs == Parse(c.content)
        IN  IF Len(diffs) = 0 THEN <<>> ELSE ToUnified(diffs[Len(diffs)])]

\* as hashUnchanged, with the hash never taken as unchanged
hashUnchangedNever(hash, last) == FALSE

\* if hash == lastHash
hashUnchanged(hash, last) == hash = last

NoPager == [status |-> "none", cause |-> "none"]

InitWatch ==
    /\ InitIdleExtract
    /\ InitIdleCache
    /\ InitIdleHash
    /\ InitIdleRender
    /\ InitIdleInput
    /\ InitIdleWatch
    /\ InitIdleFind
    /\ InitIdleParse
    /\ InitIdleOutput
    /\ InitIdleDetector
    /\ InitIdleTasks
    /\ processedComments = EmptyMap
    /\ watching = TRUE
    /\ pager \in {<<>>, LessPager}
    /\ lastHash = <<>>
    /\ capture = [err |-> FALSE, content |-> <<>>]
    /\ checkCount = 0
    /\ shown = <<>>
    /\ currentPagerCmd = 0
    /\ pagerKilledByUs = FALSE
    /\ pagerDone = <<>>
    /\ pagers = [p \in 1..MaxPagers |-> NoPager]

WatchUnchanged == UNCHANGED <<pager, baseVars, outputVars, detectorVars, taskVars>>

StartedPagers == {p \in DOMAIN pagers : pagers[p].status # "none"}

\* the pagers after killCurrentPager: the process on record is killed if it still
\* runs, and within the wait its goroutine closes the exit channel (closed) or not
pagersAfterKill(closed) ==
    IF currentPagerCmd = 0 THEN pagers
    ELSE [pagers EXCEPT ![currentPagerCmd] =
            [status |-> IF @.status \in {"running", "exited"}
                        THEN (IF closed THEN "closed" ELSE "exited")
                        ELSE @.status,
             cause |-> IF @.status = "running" THEN "kill" ELSE @.cause]]

\* checkAndUpdate, on the initial check and on a tick; started says whether the
\* new pager could be started, closed whether the old one was seen to exit
CheckAndUpdate(c, started, closed) ==
    /\ watching
    /\ checkCount < MaxChecks
    /\ checkCount' = checkCount + 1
    /\ capture' = c
    /\ LET unified == latestUnified[c]
       IN  IF c.err \/ Len(unified) = 0 \/ hashUnchanged(hashContent(unified), lastHash)
           THEN UNCHANGED <<lastHash, shown, currentPagerCmd, pagerKilledByUs, pagers>>
           ELSE /\ Cardinality(StartedPagers) < MaxPagers
                /\ lastHash' = hashContent(unified)
                /\ shown' = Append(shown, unified)
                /\ pagerKilledByUs' = (pagerKilledByUs \/ currentPagerCmd # 0)
                /\ IF pager # <<>> /\ started
                   THEN /\ currentPagerCmd' = Cardinality(StartedPagers) + 1
                        /\ pagers' = [pagersAfterKill(closed) EXCEPT
                                        ![Cardinality(StartedPagers) + 1] =
                                            [status |-> "running", cause |-> "none"]]
                   ELSE /\ currentPagerCmd' = 0
                        /\ pagers' = pagersAfterKill(closed)
    /\ UNCHANGED <<watching, pagerDone>>
    /\ WatchUnchanged

\* the user quits the pager on display
UserQuitsPager(p) ==
    /\ pagers[p].status = "running"
    /\ pagers' = [pagers EXCEPT ![p] = [status |-> "exited", cause |-> "user"]]
    /\ UNCHANGED <<watching, lastHash, capture, checkCount, shown, currentPagerCmd, pagerKilledByUs,
                   pagerDone>>
    /\ WatchUnchanged

\* the goroutine of startPagerAsync: cmd.Wait returns and the exit channel is closed
PagerWaitReturns(p) ==
    /\ pagers[p].status = "exited"
    /\ pagers' = [pagers EXCEPT ![p].status = "closed"]
    /\ UNCHANGED <<watching, lastHash, capture, checkCount, shown, currentPagerCmd, pagerKilledByUs,
                   pagerDone>>
    /\ WatchUnchanged

\* the goroutine of startPagerAsync: the send on done that does not block
PagerSignalsDone(p) ==
    /\ pagers[p].status = "closed"
    /\ pagers' = [pagers EXCEPT ![p].status = "signalled"]
    /\ pagerDone' = IF Len(pagerDone) = 0 THEN <<p>> ELSE pagerDone
    /\ UNCHANGED <<watching, lastHash, capture, checkCount, shown, currentPagerCmd,
                   pagerKilledByUs>>
    /\ WatchUnchanged

\* the pagerDone case of the loop
ReceivePagerDone ==
    /\ watching
    /\ Len(pagerDone) > 0
    /\ pagerDone' = <<>>
    /\ IF pagerKilledByUs
       THEN pagerKilledByUs' = FALSE /\ watching' = TRUE
       ELSE pagerKilledByUs' = pagerKilledByUs /\ watching' = FALSE
    /\ UNCHANGED <<lastHash, capture, checkCount, shown, currentPagerCmd, pagers>>
    /\ WatchUnchanged

\* the sigChan case of the loop
ReceiveSignal(closed) ==
    /\ watching
    /\ watching' = FALSE
    /\ pagerKilledByUs' = (pagerKilledByUs \/ currentPagerCmd # 0)
    /\ currentPagerCmd' = 0
    /\ pagers' = pagersAfterKill(closed)
    /\ UNCHANGED <<lastHash, capture, checkCount, shown, pagerDone>>
    /\ WatchUnchanged

NextWatch ==
    \/ \E c \in Captures, started, closed \in BOOLEAN : CheckAndUpdate(c, started, closed)
    \/ \E p \in 1..MaxPagers : UserQuitsPager(p)
    \/ \E p \in 1..MaxPagers : PagerWaitReturns(p)
    \/ \E p \in 1..MaxPagers : PagerSignalsDone(p)
    \/ ReceivePagerDone
    \/ \E closed \in BOOLEAN : ReceiveSignal(closed)

SpecWatch == InitWatch /\ [][NextWatch]_vars

\* ------------------------------------------------------------------------
\* The tasks that run handleFileChange and the manual search: SpecTasks
\* ------------------------------------------------------------------------
\* the files on disk while the tasks run
TaskDisk == [p \in WatchedPaths |-> IF p = PathA THEN FileOf(FileTwo) ELSE FileOf(FileMixed)]

\* ExtractAIComments per watched file
TaskComments == [p \in WatchedPaths |-> ExtractAIComments(p, TaskDisk[p].lines)]

\* collectAllContextComments(".")
TaskContext == collectAllContextComments(TaskDisk)

\* the orders FindFilesWithAIComments can return the files in
TaskFileOrders == OrdersOf(filesWithAIComments(TaskDisk))

IdleHandler == [pc |-> "none", path |-> PathA, todo |-> <<>>, unprocessed |-> <<>>]

\* the '?' and '!' records, on which handleFileChange asks the cache
quickActions(comments) ==
    LET Quick(c) == c.ActionType \in {"?", "!"}
    IN  SelectSeq(comments, Quick)

\* the file events whose callback has been entered and has not returned
Handling == {e \in DOMAIN handlers : handlers[e].pc \notin {"none", "queued", "done"}}

\* as loopFree, with the callback started as a task of its own
loopFreeAlways(e) == TRUE

\* processEvents takes the next event from the channel only after
\* fw.onFileChange has returned: e is the oldest event waiting
loopFree(e) ==
    /\ Handling = {}
    /\ \A f \in DOMAIN handlers : handlers[f].pc = "queued" => e <= f

InitTasks ==
    /\ InitIdleExtract
    /\ InitIdleCache
    /\ InitIdleHash
    /\ InitIdleRender
    /\ InitIdleInput
    /\ InitIdleFind
    /\ InitIdleParse
    /\ InitIdleOutput
    /\ InitIdleDetector
    /\ InitIdleWatchMode
    /\ processedComments = EmptyMap
    /\ disk = TaskDisk
    /\ stdin = <<>>
    /\ eventNo = 0
    /\ lastPath = PathA
    /\ lastEvent = [p \in WatchedPaths |-> NoEvent]
    /\ sentOk = {}
    /\ handlers = [e \in 1..MaxFileEvents |-> IdleHandler]
    /\ searchers = [s \in 1..MaxSearches |-> "none"]
    /\ cacheLog = <<>>

TasksUnchanged ==
    UNCHANGED <<disk, lastPath, lastEvent, sentOk, extractVars, cacheVars, hashVars,
                renderVars, inputVars, findVars, parseVars, outputVars, detectorVars,
                watchModeVars>>

\* fsnotify puts a write or create event of a monitored file on the channel
FileEvent(p) ==
    /\ eventNo < MaxFileEvents
    /\ eventNo' = eventNo + 1
    /\ handlers' = [handlers EXCEPT ![eventNo + 1] = [IdleHandler EXCEPT !.pc = "queued",
                                                                        !.path = p]]
    /\ UNCHANGED <<processedComments, stdin, searchers, cacheLog>>
    /\ TasksUnchanged

\* processEvents receives the event and calls handleFileChange, which extracts
\* the comments of the file
ReceiveEvent(e) ==
    /\ handlers[e].pc = "queued"
    /\ loopFree(e)
    /\ LET todo == quickActions(TaskComments[handlers[e].path])
       IN  handlers' = [handlers EXCEPT ![e].pc = IF Len(todo) = 0 THEN "done"
                                                   ELSE "checking",
                                         ![e].todo = todo]
    /\ UNCHANGED <<processedComments, stdin, eventNo, searchers, cacheLog>>
    /\ TasksUnchanged

\* handleFileChange enters isCommentProcessed
EnterCheck(e) ==
    /\ handlers[e].pc = "checking"
    /\ handlers' = [handlers EXCEPT ![e].pc = "in_check"]
    /\ UNCHANGED <<processedComments, stdin, eventNo, searchers, cacheLog>>
    /\ TasksUnchanged

\* isCommentProcessed returns, and the loop over the comments goes on or ends
ExitCheck(e) ==
    /\ handlers[e].pc = "in_check"
    /\ LET comment == handlers[e].todo[1]
           unprocessed == IF isCommentProcessed(processedComments, comment)
                          THEN handlers[e].unprocessed
                          ELSE Append(handlers[e].unprocessed, comment)
           rest == Tail(handlers[e].todo)
       IN  /\ handlers' = [handlers EXCEPT
                             ![e].pc = IF Len(rest) > 0 THEN "checking"
                                       ELSE IF Len(unprocessed) > 0 THEN "sending"
                                       ELSE "done",
                             ![e].todo = rest,
                             ![e].unprocessed = unprocessed]
           /\ cacheLog' = Append(cacheLog, [event |-> e, op |-> "isCommentProcessed",
                                            hash |-> comment.Hash])
    /\ UNCHANGED <<processedComments, stdin, eventNo, searchers>>
    /\ TasksUnchanged

\* handleFileChange collects the context, renders the prompt and sends it
SendPrompt(e, result) ==
    /\ handlers[e].pc = "sending"
    /\ stdin' = stdin \o SendCommand(promptOf(handlers[e].unprocessed, TaskContext), result)
    /\ handlers' = [handlers EXCEPT ![e].pc = IF result = "ok" THEN "marking" ELSE "done",
                                     ![e].todo = IF result = "ok" THEN handlers[e].unprocessed
                                                 ELSE <<>>]
    /\ UNCHANGED <<processedComments, eventNo, searchers, cacheLog>>
    /\ TasksUnchanged

\* handleFileChange enters markCommentProcessed
EnterMark(e) ==
    /\ handlers[e].pc = "marking"
    /\ handlers' = [handlers EXCEPT ![e].pc = "in_mark"]
    /\ UNCHANGED <<processedComments, stdin, eventNo, searchers, cacheLog>>
    /\ TasksUnchanged

\* markCommentProcessed returns, and the loop over the sent comments goes on or ends
ExitMark(e) ==
    /\ handlers[e].pc = "in_mark"
    /\ LET comment == handlers[e].todo[1]
           rest == Tail(handlers[e].todo)
       IN  /\ processedComments' = markCommentProcessed(processedComments, comment)
           /\ handlers' = [handlers EXCEPT ![e].pc = IF Len(rest) > 0 THEN "marking"
                                                     ELSE "done",
                                           ![e].todo = rest]
           /\ cacheLog' = Append(cacheLog, [event |-> e, op |-> "markCommentProcessed",
                                            hash |-> comment.Hash])
    /\ UNCHANGED <<stdin, eventNo, searchers>>
    /\ TasksUnchanged

\* processUserInput reads a Ctrl+/ and starts the goroutine of the manual search
StartSearch(s) ==
    /\ searchers[s] = "none"
    /\ \A t \in 1..(s - 1) : searchers[t] # "none"
    /\ searchers' = [searchers EXCEPT ![s] = "finding"]
    /\ UNCHANGED <<processedComments, stdin, eventNo, handlers, cacheLog>>
    /\ TasksUnchanged

\* triggerAICommentSearch: FindFilesWithAIComments has returned
SearchFound(s) ==
    /\ searchers[s] = "finding"
    /\ searchers' = [searchers EXCEPT ![s] = "collecting"]
    /\ UNCHANGED <<processedComments, stdin, eventNo, handlers, cacheLog>>
    /\ TasksUnchanged

\* triggerAICommentSearch: the comments of the files are collected and the
\* context prompt is sent
SearchSends(s, files, result) ==
    /\ searchers[s] = "collecting"
    /\ searchers' = [searchers EXCEPT ![s] = "done"]
    /\ LET allUnprocessedComments == contextCommentsOf(TaskDisk, files)
       IN  stdin' = IF Len(allUnprocessedComments) > 0 /\ result = "ok"
                    THEN Append(stdin, contextPromptOf(allUnprocessedComments))
                    ELSE stdin
    /\ UNCHANGED <<processedComments, eventNo, handlers, cacheLog>>
    /\ TasksUnchanged

NextTasks ==
    \/ \E p \in WatchedPaths : FileEvent(p)
    \/ \E e \in 1..MaxFileEvents : ReceiveEvent(e)
    \/ \E e \in 1..MaxFileEvents : EnterCheck(e)
    \/ \E e \in 1..MaxFileEvents : ExitCheck(e)
    \/ \E e \in 1..MaxFileEvents, result \in SendResults : SendPrompt(e, result)
    \/ \E e \in 1..MaxFileEvents : EnterMark(e)
    \/ \E e \in 1..MaxFileEvents : ExitMark(e)
    \/ \E s \in 1..MaxSearches : StartSearch(s)
    \/ \E s \in 1..MaxSearches : SearchFound(s)
    \/ \E s \in 1..MaxSearches, files \in TaskFileOrders, result \in {"ok", "text_error"} :
            SearchSends(s, files, result)

SpecTasks == InitTasks /\ [][NextTasks]_vars

\* ------------------------------------------------------------------------
\* Claims on the file-change handler and the dedup cache
\* ------------------------------------------------------------------------
\* the step is a handleFileChange call
IsEvent == eventNo' # eventNo
Last == lastEvent[lastPath]

\* C1: with no clearProcessedCache call in between, once a prompt with a '?' or
\* '!' comment was sent successfully, no later file-change event sends a prompt
\* that includes a comment with the same fingerprint.
C1_NoResendAfterSuccess ==
    [][ (IsEvent /\ lastEvent'[lastPath'].outcome \in {"sent", "send_error"})
            => Hashes(lastEvent'[lastPath'].attempted) \cap sentOk = {} ]_vars

\* an event found only comments that were sent before, and sent nothing
C1_Witness ==
    /\ Last.outcome = "nothing_new"
    /\ sentOk # {}
    /\ eventNo >= 2

\* C2: a fingerprint enters the cache only in the step that sent the prompt with
\* its comment successfully; an event whose SendCommand or extraction failed
\* leaves the cache as it was; and the next event for the same unchanged file
\* attempts again every comment of the failed prompt.
C2_MarkOnlyAfterSuccess ==
    [][ /\ (DOMAIN processedComments' \ DOMAIN processedComments)
                \subseteq (IF IsEvent /\ lastEvent'[lastPath'].outcome = "sent"
                           THEN Hashes(lastEvent'[lastPath'].attempted) ELSE {})
        /\ (IsEvent /\ lastEvent'[lastPath'].outcome \in {"send_error", "extract_error"})
                => processedComments' = processedComments
        /\ (IsEvent /\ lastEvent[lastPath'].outcome = "send_error"
                /\ lastEvent'[lastPath'].file = lastEvent[lastPath'].file)
                => /\ lastEvent'[lastPath'].outcome \in {"sent", "send_error"}
                   /\ SeqToSet(lastEvent[lastPath'].attempted)
                        \subseteq SeqToSet(lastEvent'[lastPath'].attempted) ]_vars

\* a send failed, and the next event for the same file sent the same comments
C2_Witness ==
    /\ Last.retry
    /\ Last.outcome = "sent"
    /\ Len(Last.attempted) = 2
    /\ DOMAIN processedComments = Hashes(Last.attempted)

\* ------------------------------------------------------------------------
\* Claims on the cache called directly
\* ------------------------------------------------------------------------
\* h was marked by one of the first n calls, with no clear after that mark
MarkedSinceClear(h, n) ==
    \E i \in 1..n : /\ calls[i] = [op |-> "mark", hash |-> h]
                    /\ \A j \in (i + 1)..n : calls[j].op # "clear"

\* C3: isCommentProcessed(c) is true exactly when markCommentProcessed was called
\* for c's fingerprint since the most recent clearProcessedCache (or the start);
\* marking one fingerprint does not change the answer for another.
C3_SeenIffMarkedSinceClear ==
    /\ \A c \in TestComments :
         isCommentProcessed(processedComments, c) <=> MarkedSinceClear(c.Hash, Len(calls))
    /\ answer.hash # <<>> => (answer.result <=> MarkedSinceClear(answer.hash, answer.at))

\* one fingerprint marked before a clear and answered false after it, another
\* marked after the clear and still present once a third was marked
C3_Witness ==
    /\ Len(calls) = 4
    /\ calls[1].op = "mark" /\ calls[2].op = "clear" /\ calls[3].op = "mark"
    /\ calls[4].op = "mark"
    /\ Cardinality({calls[1].hash, calls[3].hash, calls[4].hash}) = 3
    /\ answer = [hash |-> calls[1].hash, result |-> FALSE, at |-> 4]
    /\ DOMAIN processedComments = {calls[3].hash, calls[4].hash}

\* ------------------------------------------------------------------------
\* Claims on the extraction
\* ------------------------------------------------------------------------
Ran(op) == xOp = op

\* the words of a body, lowercased
LowerWords == [k \in 1..Len(xIn.words) |-> ToLower(xIn.words[k])]
FirstWord == LowerWords[1]
LastWord == LowerWords[Len(LowerWords)]
IsBody == xIn.family \in Forms

ActionTypes == [k \in 1..Len(xComments) |-> xComments[k].ActionType]

\* C4: a file with the opt-out sentinel NO_CLAWDE (in any letter case) in any of
\* its comments yields zero records. Every occurrence of the sentinel in the
\* texts of the "optout" family lies in a comment.
SentinelText == <<"n", "o", "_", "c", "l", "a", "w", "d", "e">>

C4_OptOutSuppressesAll ==
    (Ran("ExtractAIComments") /\ xIn.family = "optout"
        /\ \E k \in 1..Len(xLines) : Contains(ToLower(xLines[k]), SentinelText))
    => xComments = <<>>

\* C5: consecutive whole-line comments come back as one record that covers the
\* whole run, whichever of its lines carry a marker, and a non-comment line
\* between two whole-line marker comments splits them into two single-line records.
WholeLineTexts == {GFix, GWhy, GNote, GPlain, GIndent, GEmpty}
SeparatorTexts == {GBlank, GCode}
EndMarkerTexts == {GFix, GWhy, GIndent}

\* lines s..e are a maximal run of whole-line comments
MaximalRun(s, e) ==
    /\ s <= e
    /\ \A k \in s..e : xLines[k] \in WholeLineTexts
    /\ s = 1 \/ xLines[s - 1] \notin WholeLineTexts
    /\ e = Len(xLines) \/ xLines[e + 1] \notin WholeLineTexts

Spans(r, s, e) == r.LineNumber = s /\ r.EndLine = (IF s = e THEN 0 ELSE e)

MarkerTexts == {GFix, GWhy, GNote, GIndent}

C6_MarkerOnAnyLineOfGroup ==
    (Ran("ExtractAIComments") /\ xIn.family = "group") =>
        \A s, e \in 1..Len(xLines) :
            (MaximalRun(s, e) /\ \E k \in s..e : xLines[k] \in MarkerTexts)
                => Cardinality({k \in 1..Len(xComments) : Spans(xComments[k], s, e)}) = 1

\* C7: a run of whole-line comments in which one line ends with 'AI!' and the
\* other lines end with 'ai?' (in any letter case) is one record of the run with
\* action type '!', whichever line carries the '!'.
C7_CommandWinsInGroup ==
    (Ran("ExtractAIComments") /\ xIn.family = "group") =>
        \A s, e \in 1..Len(xLines) :
            (/\ MaximalRun(s, e)
             /\ s < e
             /\ Cardinality({k \in s..e : xLines[k] = GFix}) = 1
             /\ \A k \in s..e : xLines[k] \in {GFix, GWhy, GIndent})
                => \E k \in 1..Len(xComments) :
                      Spans(xComments[k], s, e) /\ xComments[k].ActionType = "!"

\* C8: a block comment's record has action type '!' if any cleaned line of the
\* block carries a '!' marker, else '?' if any line carries a '?' marker, else ':'
\* if any line starts with 'ai:'; a block none of whose lines carries a marker at
\* its start or end yields no record.
BangTexts == {BFixClose, BFix, BOne}
QuestionTexts == {BOpenWhy, BWhy}
ContextTexts == {BNote}
ClosingTexts == {BClose, BFixClose, BOne, BNone}

\* the action type of the lines s..e of a block by the claim's priority, "" if none
BlockPriority(s, e) ==
    IF \E k \in s..e : xLines[k] \in BangTexts THEN "!"
    ELSE IF \E k \in s..e : xLines[k] \in QuestionTexts THEN "?"
    ELSE IF \E k \in s..e : xLines[k] \in ContextTexts THEN ":"
    ELSE ""

\* the same for a body put in a one-line block
BodyPriority ==
    IF FirstWord = AiBang \/ LastWord = AiBang THEN "!"
    ELSE IF FirstWord = AiQuestion \/ LastWord = AiQuestion THEN "?"
    ELSE IF FirstWord = AiColon THEN ":"
    ELSE ""

\* the file opens a block on line 1 that line e closes
FirstBlockCloses(e) ==
    /\ xLines[1] \in {BOpen, BOpenWhy, BNone}
    /\ e \in 2..Len(xLines)
    /\ xLines[e] \in ClosingTexts
    /\ \A k \in 2..(e - 1) : xLines[k] \notin ClosingTexts

C8_BlockActionType ==
    /\ (Ran("ExtractAIComments") /\ xIn.family = "blocks") =>
        \* every record has the priority type of the lines it spans
        /\ \A k \in 1..Len(xComments) :
             /\ xComments[k].EndLine >= xComments[k].LineNumber
             /\ xComments[k].ActionType = BlockPriority(xComments[k].LineNumber, xComments[k].EndLine)
        \* the block opened on line 1 is reported exactly when a line carries a marker
        /\ \A e \in 1..Len(xLines) :
             FirstBlockCloses(e) =>
                Cardinality({k \in 1..Len(xComments) : xComments[k].LineNumber = 1})
                    = (IF BlockPriority(1, e) = "" THEN 0 ELSE 1)
    /\ (Ran("ExtractAIComments") /\ xIn.family = "block") =>
        ActionTypes = (IF BodyPriority = "" THEN <<>> ELSE <<BodyPriority>>)

\* a block with a '?' on its first, an 'AI:' on its second and a '!' on its last line
C8_Witness ==
    /\ Ran("ExtractAIComments")
    /\ xLines = <<BOpenWhy, BNote, BFixClose>>
    /\ Len(xComments) = 1
    /\ xComments[1].ActionType = "!"
    /\ xComments[1].LineNumber = 1 /\ xComments[1].EndLine = 3

\* C9: a comment text with no '?' or '!' marker is not classified as Context if it
\* ends in 'ai:', and is classified as Context if it starts with 'ai:'.
NoQuestionOrCommand ==
    /\ FirstWord \notin {AiBang, AiQuestion}
    /\ LastWord \notin {AiBang, AiQuestion}
EndsInColon == HasSuffix(LastWord, AiColon)
StartsWithColon == HasPrefix(FirstWord, AiColon)

C9_ColonPosition ==
    (Ran("ExtractAIComments") /\ IsBody /\ NoQuestionOrCommand) =>
        /\ EndsInColon => \A k \in 1..Len(xComments) : xComments[k].ActionType # ":"
        /\ StartsWithColon => ActionTypes = <<":">>

\* C9 as amended: the first half holds of the texts that do not also start with 'ai:'
C9_ColonPositionAmended ==
    (Ran("ExtractAIComments") /\ IsBody /\ NoQuestionOrCommand) =>
        /\ (EndsInColon /\ ~StartsWithColon) => xComments = <<>>
        /\ StartsWithColon => ActionTypes = <<":">>

\* "fix Ai:" gives no record, and "Ai: fix Ai:" gives a Context record
C9_Witness ==
    /\ Ran("ExtractAIComments")
    /\ \/ xIn.words = <<WFix, WColon>> /\ xComments = <<>>
       \/ xIn.words = <<WColon, WFix, WColon>> /\ ActionTypes = <<":">>
    /\ xIn.family = "whole"

\* C10: a comment whose last word merely contains 'ai' before its '?' or '!' (the
\* 'ai' neither after a space nor at the very start of the comment) is not
\* classified by that word: it has a record only for a marker at its start, so
\* 'Traveling to hawaii?' yields none; a marker only in the middle yields none.
MerelyContains(w) ==
    /\ HasSuffix(w, AiQuestion) \/ HasSuffix(w, AiBang)
    /\ Len(w) > 3
IsMarkerWord(w) == w \in {AiBang, AiQuestion, AiColon}

IsLong == xIn.family \in LongForms
StrippedText == Join(xIn.words, Sp)
MarkerOf(w) == IF ToLower(w) = AiBang THEN "!" ELSE "?"

C11_LongCommentKeepsMarker ==
    (Ran("ExtractAIComments") /\ IsLong /\ Len(StrippedText) > maxCommentLength) =>
        /\ Len(xComments) = 1
        /\ xComments[1].ActionType = MarkerOf(xIn.words[2])
        /\ xComments[1].Content = SubSeq(StrippedText, 1, maxCommentLength) \o TruncatedSuffix
        /\ ~Contains(xComments[1].FullLine, TruncatedSuffix)
        /\ Contains(ToLower(xComments[1].FullLine), ToLower(xIn.words[2]))

\* C12: the fingerprint is a function of (FilePath, LineNumber, Content,
\* ActionType) only: two records equal on the four fields have the same
\* fingerprint whatever their other fields, and two records that differ on
\* exactly one of the four fields have different fingerprints.
HashFields == {"FilePath", "LineNumber", "Content", "ActionType"}
DifferingFields == {f \in HashFields : hPair[1][f] # hPair[2][f]}

C12_FingerprintOfFourFields ==
    hOut # <<>> =>
        /\ DifferingFields = {} => hOut[1] = hOut[2]
        /\ Cardinality(DifferingFields) = 1 => hOut[1] # hOut[2]

\* two records that differ on Content only, and on EndLine, get two fingerprints
C12_Witness ==
    /\ hOut # <<>>
    /\ DifferingFields = {"Content"}
    /\ hPair[1].EndLine # hPair[2].EndLine
    /\ hOut[1] # hOut[2]

\* C13: on a path whose extension is not .go, .js or .py the extraction returns
\* no record and no error and does not read the file; on a path with a
\* registered extension whose file cannot be read it returns an error and no
\* record.
C13_UnregisteredAndUnreadable ==
    (Ran("ExtractAIComments") /\ xIn.family = "paths") =>
        /\ xPath \in UnregisteredPaths => (xComments = <<>> /\ xErr = "" /\ ~xRead)
        /\ (xPath \in RegisteredPaths /\ ~xExists) => (xComments = <<>> /\ xErr # "")

\* test.txt with a marker comment in it: nothing returned, nothing read
C13_Witness ==
    /\ Ran("ExtractAIComments")
    /\ xPath = TxtPath /\ xLines = <<GFix>> /\ xExists
    /\ xComments = <<>> /\ xErr = "" /\ ~xRead

\* C14: an inline comment is a single-line record of its own (EndLine unset), and
\* no group of whole-line comments takes in an inline comment before or after it.
InlineLineNumbers == {k \in 1..Len(xLines) : xLines[k] = GInline}
InlineContent == <<"i", "n", "l", "i", "n", "e", " ", "A", "I", "?">>

C14_InlineNeverGrouped ==
    (Ran("ExtractAIComments") /\ xIn.family = "group") =>
        \* each inline comment has exactly one record, of that line alone
        /\ \A n \in InlineLineNumbers :
             /\ Cardinality({k \in 1..Len(xComments) : xComments[k].LineNumber = n}) = 1
             /\ \A k \in 1..Len(xComments) :
                  xComments[k].LineNumber = n =>
                      /\ xComments[k].EndLine = 0
                      /\ xComments[k].Content = InlineContent
                      /\ xComments[k].FullLine = GInline
        \* no record of several lines covers an inline comment
        /\ \A k \in 1..Len(xComments) :
             xComments[k].EndLine # 0 =>
                \A n \in xComments[k].LineNumber..xComments[k].EndLine : n \notin InlineLineNumbers

\* a group of two lines, then an inline comment, then a whole-line comment: the
\* group stops before the inline comment and the line after it is on its own
C14_Witness ==
    /\ Ran("ExtractAIComments")
    /\ xLines \in {<<GPlain, GFix, GInline>>, <<GInline, GPlain, GWhy>>}
    /\ Len(xComments) = 2
    /\ \E k \in 1..2 : xComments[k].EndLine # 0
    /\ \E k \in 1..2 : xLines[xComments[k].LineNumber] = GInline /\ xComments[k].EndLine = 0

\* C15: a line on which the block tokens enclose only whitespace ('/**/', six
\* double quotes) gives no record for that line, and a line with text between
\* the tokens, met outside of any block, is a block of its own: one record with
\* LineNumber = EndLine = that line (the texts used carry a marker).
EmptyPairTexts == {BNone, YEmpty}
OneLineBlockTexts == {BOne, YOne, YOneS}
RecordsAt(n) == {k \in 1..Len(xComments) : xComments[k].LineNumber = n}

C15_EmptyPairIsNoBlock ==
    (Ran("ExtractAIComments") /\ xIn.family \in {"mixed", "pylines"}) =>
        \A n \in 1..Len(xLines) :
            /\ xLines[n] \in EmptyPairTexts => RecordsAt(n) = {}
            /\ (xLines[n] \in OneLineBlockTexts
                    /\ \A j \in 1..(n - 1) : xLines[j] \in EmptyPairTexts \cup OneLineBlockTexts)
                => /\ Cardinality(RecordsAt(n)) = 1
                   /\ \A k \in RecordsAt(n) : xComments[k].EndLine = n

\* C16: the records of one file come back in ascending LineNumber order.
C16_AscendingLineOrder ==
    (Ran("ExtractAIComments") /\ xIn.family \in {"group", "blocks", "mixed", "pylines"}) =>
        \A j, k \in 1..Len(xComments) :
            j < k => xComments[j].LineNumber <= xComments[k].LineNumber

\* C17: no source line is covered by two records.
LastLineOf(r) == IF r.EndLine = 0 THEN r.LineNumber ELSE r.EndLine
Covers(r) == r.LineNumber..LastLineOf(r)

C17_DisjointLineRanges ==
    (Ran("ExtractAIComments") /\ xIn.family \in {"group", "blocks", "mixed", "pylines"}) =>
        \A j, k \in 1..Len(xComments) :
            j # k => Covers(xComments[j]) \cap Covers(xComments[k]) = {}

\* C18: every record has LineNumber >= 1 and EndLine = 0 or EndLine >= LineNumber;
\* EndLine is 0 exactly for the records of one physical single-line comment, and
\* the record of a group has the first and the last line of the group.
SingleLineTexts == WholeLineTexts \cup {GInline, YHash}

C18_LineNumberAndEndLine ==
    (Ran("ExtractAIComments") /\ xIn.family \in {"group", "blocks", "mixed", "pylines"}) =>
        \A k \in 1..Len(xComments) :
            LET r == xComments[k]
            IN  /\ r.LineNumber \in 1..Len(xLines)
                /\ r.EndLine = 0 \/ r.EndLine \in r.LineNumber..Len(xLines)
                /\ r.EndLine = 0 <=>
                        (xLines[r.LineNumber] \in SingleLineTexts /\ r.FullLine = xLines[r.LineNumber])
                /\ (xIn.family = "group" /\ r.EndLine # 0) =>
                        (r.LineNumber < r.EndLine /\ MaximalRun(r.LineNumber, r.EndLine))

\* a group of two lines has EndLine 2, a comment on its own after code has EndLine 0
C18_Witness ==
    /\ Ran("ExtractAIComments")
    /\ \/ xLines = <<GIndent, GFix, GCode>> /\ Len(xComments) = 1
             /\ xComments[1].LineNumber = 1 /\ xComments[1].EndLine = 2
       \/ xLines = <<GCode, GCode, GFix>> /\ Len(xComments) = 1
             /\ xComments[1].LineNumber = 3 /\ xComments[1].EndLine = 0

\* C19: the record of a closed block comment has as Content the cleaned lines of
\* the block (tokens, surrounding whitespace and one leading '*' removed, empty
\* lines dropped) joined by single spaces, and as LineNumber and EndLine the
\* 1-based numbers of the opening and the closing line.
CleanedText(line) ==
    CASE line \in {BOpenWhy, BWhy} -> <<"w", "h", "y", " ", "a", "i", "?">>
      [] line \in {BFixClose, BFix} -> <<"f", "i", "x", " ", "A", "I", "!">>
      [] line = BNote -> <<"A", "I", ":", " ", "n", "o", "t", "e">>
      [] line = BMid -> <<"m", "i", "d", " ", "A", "I", "?", " ", "d", "l", "e">>
      [] line = BOne -> <<"o", "n", "e", " ", "A", "I", "!">>
      [] OTHER -> <<>>

CleanedJoin(s, e) ==
    Join(SelectSeq([k \in 1..(e - s + 1) |-> CleanedText(xLines[s + k - 1])], NonEmpty), Sp)

\* line 1 opens a block that line e, and no line before it, closes
OpenedOnFirstLine(e) ==
    /\ xLines[1] \in {BOpen, BOpenWhy}
    /\ e \in 2..Len(xLines)
    /\ xLines[e] \in ClosingTexts
    /\ \A k \in 2..(e - 1) : xLines[k] \notin ClosingTexts

C19_BlockContentAndRange ==
    (Ran("ExtractAIComments") /\ xIn.family = "blocks") =>
        /\ \A k \in 1..Len(xComments) :
             /\ xComments[k].EndLine >= xComments[k].LineNumber
             /\ xComments[k].Content = CleanedJoin(xComments[k].LineNumber, xComments[k].EndLine)
        /\ \A e \in 1..Len(xLines) :
             (OpenedOnFirstLine(e) /\ BlockPriority(1, e) # "") =>
                \E k \in 1..Len(xComments) :
                    /\ xComments[k].LineNumber = 1
                    /\ xComments[k].EndLine = e
                    /\ xComments[k].Content = CleanedJoin(1, e)
        /\ (xLines[1] = BOne) =>
                \E k \in 1..Len(xComments) :
                    /\ xComments[k].LineNumber = 1 /\ xComments[k].EndLine = 1
                    /\ xComments[k].Content = CleanedText(BOne)

\* '/* why ai?', ' * fix AI!', ' */' is one record of lines 1-3, "why ai? fix AI!"
C19_Witness ==
    /\ Ran("ExtractAIComments")
    /\ xLines = <<BOpenWhy, BFix, BClose>>
    /\ Len(xComments) = 1
    /\ xComments[1].LineNumber = 1 /\ xComments[1].EndLine = 3
    /\ xComments[1].Content = CleanedText(BOpenWhy) \o Sp \o CleanedText(BFix)

\* C20: a block comment opened and never closed before the end of the file
\* yields no record, and the records of the comments that ended before it are
\* returned as they are for the file cut before the opening line.
OutsideTexts == {GFix, GCode, BOne}
InsideTexts == {GFix, GCode, BFix, BOpen}

\* line n opens a block outside of any other, and no later line closes it
DanglingAt(n) ==
    /\ n \in 1..Len(xLines)
    /\ xLines[n] = BOpen
    /\ \A j \in 1..(n - 1) : xLines[j] \in OutsideTexts
    /\ \A j \in (n + 1)..Len(xLines) : xLines[j] \in InsideTexts

\* a record without its context lines
Bare(r) ==
    [LineNumber |-> r.LineNumber, EndLine |-> r.EndLine, Content |-> r.Content,
     FullLine |-> r.FullLine, ActionType |-> r.ActionType, Hash |-> r.Hash]
BareSet(q) == {Bare(q[k]) : k \in 1..Len(q)}

C20_UnclosedBlock ==
    (Ran("ExtractAIComments") /\ xIn.family = "mixed") =>
        \A n \in 1..Len(xLines) :
            DanglingAt(n) =>
                \* from the opening line on, no record of a block: the records
                \* there are those of the single-line comments after it
                /\ \A k \in 1..Len(xComments) :
                     LastLineOf(xComments[k]) >= n =>
                        /\ xComments[k].LineNumber > n
                        /\ ~Contains(xComments[k].FullLine, BlockOpen)
                \* the earlier one-line blocks and single-line comments are reported
                /\ \A j \in 1..(n - 1) :
                     xLines[j] = BOne =>
                        \E k \in 1..Len(xComments) :
                            xComments[k].LineNumber = j /\ xComments[k].EndLine = j
                /\ BareSet(ExtractAIComments(xPath, SubSeq(xLines, 1, n - 1)))
                        = {r \in BareSet(xComments) : r.LineNumber < n}

\* a one-line block, a single-line comment, then '/*' left open: two records
C20_Witness ==
    /\ Ran("ExtractAIComments")
    /\ xLines = <<BOne, GFix, BOpen>>
    /\ {<<xComments[k].LineNumber, xComments[k].EndLine>> : k \in 1..Len(xComments)}
            = {<<1, 1>>, <<2, 0>>}

\* ------------------------------------------------------------------------
\* Claims on the prompts
\* ------------------------------------------------------------------------
\* the wording the claim gives for a record's location
LineWord == <<"l", "i", "n", "e", " ">>
LinesWord == <<"l", "i", "n", "e", "s", " ">>
ExpectedLocation(r) ==
    IF r.EndLine = 0 \/ r.EndLine = r.LineNumber THEN LineWord \o Itoa(r.LineNumber)
    ELSE LinesWord \o Itoa(r.LineNumber) \o <<"-">> \o Itoa(r.EndLine)

\* the lines of a prompt, those that name a context record (they end in ':'
\* after a location) and those that start with a bullet
LinesOf(out) == Split(out, Nl)
IsContextHead(l) == HasPrefix(l, PathA \o AtText) /\ HasSuffix(l, Colon)
IsColonLine(l) == HasSuffix(l, Colon)
IsBulletLine(l) == HasPrefix(l, Bullet)
AtWord == <<"a", "t", " ">>
AndWord == <<" ", "a", "n", "d", " ">>

\* C21: every renderer words the location of a record as 'line N' when EndLine
\* is 0 or equals LineNumber and as 'lines N-M' otherwise: the main record, each
\* bullet of a batch prompt and each context record.
C21_LocationWording ==
    LET outLines == LinesOf(rOut)
        contextHeads == SelectSeq(outLines, IsContextHead)
        colonLines == SelectSeq(outLines, IsColonLine)
        bullets == SelectSeq(outLines, IsBulletLine)
    IN  /\ rOp = "renderCommentPrompt" =>
            /\ \/ HasSuffix(outLines[1], Sp \o AtWord \o ExpectedLocation(rComments[1]))
               \/ Contains(outLines[1], Sp \o AtWord \o ExpectedLocation(rComments[1]) \o AndWord)
            /\ Len(contextHeads) = Len(rContext)
            /\ \A k \in 1..Len(rContext) :
                 HasSuffix(contextHeads[k], Sp \o ExpectedLocation(rContext[k]) \o Colon)
        /\ rOp = "renderMultipleCommentsPrompt" =>
            /\ Len(bullets) = Len(rComments)
            /\ \A k \in 1..Len(rComments) :
                 HasSuffix(bullets[k], Sp \o AtWord \o ExpectedLocation(rComments[k]))
            /\ Len(contextHeads) = Len(rContext)
            /\ \A k \in 1..Len(rContext) :
                 HasSuffix(contextHeads[k], Sp \o AtWord \o ExpectedLocation(rContext[k]) \o Colon)
        /\ rOp \in {"renderContextPrompt", "renderMultipleContextPrompt"} =>
            /\ Len(colonLines) = Len(rComments)
            /\ \A k \in 1..Len(rComments) :
                 HasSuffix(colonLines[k], Sp \o AtWord \o ExpectedLocation(rComments[k]) \o Colon)

\* a batch of a one-line record and a record of lines 3-14, with two context records
C21_Witness ==
    /\ rOp = "renderMultipleCommentsPrompt"
    /\ rComments = <<RenderRecord(<<3, 0>>, "?"), RenderRecord(<<3, 14>>, "!")>>
    /\ Len(rContext) = 2
    /\ SelectSeq(LinesOf(rOut), IsBulletLine)
            = << Bullet \o Sp \o PathA \o AtText \o LineWord \o <<"3">>,
                 Bullet \o Sp \o PathA \o AtText \o LinesWord \o <<"3", "-", "1", "4">> >>

\* C22: the batch prompt has the Command (make changes) wording if a record of
\* the batch has action type '!', the Question (do not make changes) wording
\* otherwise, and one bullet line per record, in the order of the records.
MakeChangesText ==
    <<"m", "a", "k", "e", " ", "t", "h", "e", " ", "a", "p", "p", "r", "o", "p", "r", "i",
      "a", "t", "e", " ", "c", "h", "a", "n", "g", "e", "s">>
DoNotText ==
    <<"D", "O", " ", "N", "O", "T", " ", "M", "A", "K", "E", " ", "C", "H", "A", "N", "G",
      "E", "S">>

C22_BatchWordingAndBullets ==
    LET outLines == LinesOf(rOut)
        bullets == SelectSeq(outLines, IsBulletLine)
    IN  rOp = "renderMultipleCommentsPrompt" =>
            /\ IF \E k \in 1..Len(rComments) : rComments[k].ActionType = "!"
               THEN Contains(outLines[1], MakeChangesText) /\ ~Contains(outLines[1], DoNotText)
               ELSE Contains(outLines[1], DoNotText) /\ ~Contains(outLines[1], MakeChangesText)
            /\ Len(bullets) = Len(rComments)
            /\ \A k \in 1..Len(rComments) :
                 bullets[k] = Bullet \o Sp \o rComments[k].FilePath \o AtText
                                \o ExpectedLocation(rComments[k])
            \* the bullets are the lines after the head and its blank line
            /\ \A k \in 1..Len(rComments) : outLines[2 + k] = bullets[k]

\* a '?' record followed by a '!' record: Command wording, two bullets in that order
C22_Witness ==
    /\ rOp = "renderMultipleCommentsPrompt"
    /\ rComments = <<RenderRecord(<<3, 3>>, "?"), RenderRecord(<<12, 14>>, "!")>>
    /\ Contains(rOut, MakeChangesText)
    /\ Len(SelectSeq(LinesOf(rOut), IsBulletLine)) = 2

\* C23: an 'AI:' comment never makes handleFileChange send a prompt and is never
\* marked processed; the file watcher passes it on only in the context part of
\* a prompt that a '?' or '!' comment triggered, and every such prompt carries
\* all the 'AI:' comments of the files of the repository.
RecordsOn(d, p) == IF d[p].exists THEN SeqToSet(ExtractAIComments(p, d[p].lines)) ELSE {}
ContextRecordsOn(d) == UNION {{c \in RecordsOn(d, p) : c.ActionType = ":"} : p \in WatchedPaths}
AllContextHashes ==
    UNION {{c.Hash : c \in {r \in SeqToSet(ExtractAIComments(p, f)) : r.ActionType = ":"}} :
            p \in WatchedPaths, f \in Contents}

IsSearch == pendingSearches' < pendingSearches

\* the bytes of a prompt the search wrote
promptText(prompt) ==
    IF prompt.template = "renderContextPrompt" THEN renderContextPrompt(prompt.comments[1])
    ELSE renderMultipleContextPrompt(prompt.comments)

CarriageReturn == "\r"

\* what a search step wrote, apart from the bytes of the prompt themselves: only
\* ':' records, no Enter after them, and the cache untouched
C24_SearchWritesContextOnly ==
    [][IsSearch =>
        /\ processedComments' = processedComments
        /\ Len(stdin') <= 1
        /\ stdin' # stdin /\ stdin' # <<>> =>
            /\ Len(stdin') = 1
            /\ stdin'[1].comments # <<>>
            /\ \A k \in 1..Len(stdin'[1].comments) : stdin'[1].comments[k].ActionType = ":"]_vars

\* C24: a manual search (Ctrl+/, byte 31) writes only 'AI:' comments to stdin,
\* never writes the Enter byte (13), never includes '?' or '!' comments and does
\* not change the dedup cache; byte 31 itself is never forwarded.
C24_ManualSearch ==
    /\ C24_SearchWritesContextOnly
    /\ [](\A k \in 1..Len(uOutput) : uOutput[k] # CtrlSlash)
    /\ [][IsSearch /\ stdin' # stdin /\ stdin' # <<>> =>
            \A k \in 1..Len(promptText(stdin'[1])) :
                promptText(stdin'[1])[k] # CarriageReturn]_vars

C24_Witness ==
    /\ Len(stdin) = 1
    /\ Len(stdin[1].comments) >= 2
    /\ processedComments # EmptyMap
    /\ CtrlSlash \in SeqToSet(uInput)
    /\ uPos = Len(uInput)

\* what processUserInput is said to forward for one byte
ExpectedForward(b, insert) ==
    IF b = Enter THEN (IF insert THEN <<Backslash, Enter>> ELSE <<Enter>>)
    ELSE IF b = CtrlJ THEN <<Enter>>
    ELSE <<b>>

\* C25: with held-Enter detection disabled, processUserInput maps Enter (13) to
\* backslash then 13 when INSERT mode is detected and to a bare 13 otherwise, maps
\* Ctrl-J (10) to a bare 13 in both modes, and forwards every other byte except
\* 31, 14 and 16 unchanged and in input order.
C25_EnterMapping ==
    [][uPos' = uPos + 1 =>
        LET b == uInput[uPos + 1]
        IN  /\ uInput' = uInput
            /\ SubSeq(uOutput', 1, Len(uOutput)) = uOutput
            /\ b \notin {CtrlSlash, CtrlN, CtrlP} =>
                    uOutput' = uOutput \o ExpectedForward(b, insertMode)]_vars

C25_Witness ==
    /\ uInput = <<Enter, Enter>>
    /\ uPos = 2
    /\ uOutput = <<Backslash, Enter, Enter>>

\* ------------------------------------------------------------------------
\* Claims on the file search
\* ------------------------------------------------------------------------
Started == {i \in DOMAIN tree : checks[i] # "none"}
FoundByCheck == {walkPath(i) : i \in {j \in Started : hasAICommentsOfFile(tree[j])}}
NoDuplicates(q) == \A i, j \in DOMAIN q : q[i] = q[j] => i = j

\* C26: FindFilesWithAIComments returns only after every check it started has
\* finished, and the returned list holds each file whose check found a marker
\* exactly once, under any interleaving of the checks.
C26_ReturnsAfterAllChecks ==
    returned.done =>
        /\ \A i \in Started : checks[i] = "done"
        /\ SeqToSet(returned.files) = FoundByCheck
        /\ NoDuplicates(returned.files)
        /\ foundFiles = returned.files

\* two checks found a marker and appended in the order opposite to the walk's
C26_Witness ==
    /\ returned.done
    /\ Len(returned.files) = 2
    /\ \E i, j \in Started :
            i < j /\ returned.files = <<walkPath(j), walkPath(i)>>

SupportedAt == {i \in DOMAIN tree : Ext(tree[i].rel) \in SupportedExts}
\* the file at which the count passes the limit: 0 when it never does
LimitAt ==
    LET over == {i \in SupportedAt :
                    Cardinality({j \in SupportedAt : j <= i}) > maxFilesToSearch}
    IN  IF over = {} THEN 0 ELSE SetMin(over)

\* C27: checks are started for at most maxFilesToSearch files; when the walk meets
\* more supported files than that it stops walking and returns the files found so
\* far with a nil error.
C27_FileCountCap ==
    /\ Cardinality(Started) <= maxFilesToSearch
    /\ LimitAt # 0 =>
            /\ walked <= LimitAt
            /\ \A i \in Started : i < LimitAt
            /\ returned.done =>
                    /\ skipAll
                    /\ walked = LimitAt
                    /\ returned.err = "nil"
                    /\ SeqToSet(returned.files) = FoundByCheck

\* the walk stopped with files left unvisited and returned what it had
C27_Witness ==
    /\ returned.done
    /\ skipAll
    /\ walked < Len(tree)
    /\ Len(returned.files) = maxFilesToSearch

\* the directory names on the way to a file, the root's aside
DirNamesOf(rel) ==
    LET parts == Split(rel, Slash)
    IN  {parts[k] : k \in 1..(Len(parts) - 1)}

InsideIgnoredDir(rel) ==
    \E d \in DirNamesOf(rel) : d = DotGit \/ HasPrefix(d, Dot) \/ d \in ignoredDirs

\* what git reports as ignored, whatever the form of the path the walk uses
IsGitIgnored(rel) ==
    gitIgnore.isGitRepo /\ filepathJoin(RepoRoot, rel) \in gitIgnore.ignoredFiles

\* C28: no returned path is git-ignored or lies inside an ignored directory at
\* any depth below it, and no returned file is larger than the size ceiling.
C28_NothingIgnoredReturned ==
    \A i \in DOMAIN tree :
        walkPath(i) \in SeqToSet(returned.files) =>
            /\ ~IsGitIgnored(tree[i].rel)
            /\ ~InsideIgnoredDir(tree[i].rel)
            /\ tree[i].size <= maxFileSize

\* the parts of C28 that hold: a file directly inside an ignored directory, a file
\* the cache reports as ignored under the path of the walk, and a file over the
\* size ceiling are never returned
C28_DirectParentAndSize ==
    \A i \in DOMAIN tree :
        walkPath(i) \in SeqToSet(returned.files) =>
            /\ ~(gitIgnore.isGitRepo /\ walkPath(i) \in gitIgnore.ignoredFiles)
            /\ filepathBase(filepathDir(tree[i].rel)) \notin ignoredDirs \cup {DotGit}
            /\ tree[i].size <= maxFileSize

\* ------------------------------------------------------------------------
\* Claims on the diff parser
\* ------------------------------------------------------------------------
\* an end marker as the claim has it: the thinking marker, or a line of another
\* tool call (a call line that is no Update or Write header)
IsEndMarker(line) ==
    \/ Len(line) > 0 /\ line[1] = ThereforeMark
    \/ Len(line) >= 3 /\ line[1] = RecordMark /\ line[2] = " " /\ ~matchUpdate(line)

IsDiffLine(line) == matchChange(line) \/ matchContext(line) \/ matchEmptyLine(line)

\* the hunk made of the given lines of the output
HunkOfLines(raw) ==
    [StartLine |-> parseLineNum(numberText(raw[1])),
     Lines |-> [k \in DOMAIN raw |-> diffLineOf(raw[k])]]

ClaimedHunks(st) == IF st.raw # <<>> THEN Append(st.Hunks, HunkOfLines(st.raw)) ELSE st.Hunks
ClaimedClosed(st) ==
    IF st.open THEN Append(st.diffs, [Path |-> st.Path, Hunks |-> ClaimedHunks(st)])
    ELSE st.diffs

\* the diffs the claim describes: a hunk ends at a break line, a header or an end
\* marker, and nothing is taken between an end marker and the next header
RECURSIVE ClaimedLines(_, _)
ClaimedLines(st, lines) ==
    IF Len(lines) = 0 THEN st
    ELSE LET line == lines[1]
             next ==
                IF matchUpdate(line)
                THEN [diffs |-> ClaimedClosed(st), open |-> TRUE, Path |-> updatePath(line),
                      Hunks |-> <<>>, raw |-> <<>>]
                ELSE IF matchSummary(line) THEN st
                ELSE IF IsEndMarker(line)
                THEN [diffs |-> ClaimedClosed(st), open |-> FALSE, Path |-> <<>>,
                      Hunks |-> <<>>, raw |-> <<>>]
                ELSE IF ~st.open THEN st
                ELSE IF matchBreak(line) THEN [st EXCEPT !.Hunks = ClaimedHunks(st), !.raw = <<>>]
                ELSE IF IsDiffLine(line) THEN [st EXCEPT !.raw = Append(st.raw, line)]
                ELSE st
         IN  ClaimedLines(next, Tail(lines))

ClaimedDiffs(lines) ==
    LET st == ClaimedLines([diffs |-> <<>>, open |-> FALSE, Path |-> <<>>, Hunks |-> <<>>,
                            raw |-> <<>>], lines)
    IN  IF st.open /\ ClaimedHunks(st) # <<>> THEN ClaimedClosed(st) ELSE st.diffs

\* the hunks of the diffs in order, each with the path of its diff
RECURSIVE HunksOf(_)
HunksOf(diffs) ==
    IF Len(diffs) = 0 THEN <<>>
    ELSE [k \in DOMAIN diffs[1].Hunks |-> <<diffs[1].Path, diffs[1].Hunks[k]>>]
            \o HunksOf(Tail(diffs))

\* C29: Parse starts a new hunk at every '...' break line of a file diff, each
\* hunk's StartLine is the line number of the first line parsed into it, no
\* returned hunk has zero lines, and the lines after an end marker (the thinking
\* marker or another tool call) are ignored until the next Update/Write header.
C29_HunksAndEndMarkers ==
    pOp = "Parse" =>
        /\ HunksOf(pDiffs) = HunksOf(ClaimedDiffs(pContent))
        /\ \A d \in DOMAIN pDiffs : \A h \in DOMAIN pDiffs[d].Hunks :
                Len(pDiffs[d].Hunks[h].Lines) > 0

\* what holds of C29: on outputs with no tool call whose name starts with U or W
\* other than the headers, and no line numbered 0
C29_OnNumberedLinesAndOtherCalls ==
    (pOp = "Parse" /\ LWebSearch \notin SeqToSet(pContent) /\ LZero \notin SeqToSet(pContent))
        => C29_HunksAndEndMarkers

\* for the first line of a hunk numbered 0 alone
C29_ZeroLineOnly ==
    (pOp = "Parse" /\ LWebSearch \notin SeqToSet(pContent)) => C29_HunksAndEndMarkers

\* for a tool call with a name in U or W alone
C29_OtherCallOnly ==
    (pOp = "Parse" /\ LZero \notin SeqToSet(pContent)) => C29_HunksAndEndMarkers

\* ------------------------------------------------------------------------
\* Claims on the action type of a block comment
\* ------------------------------------------------------------------------
\* the texts of the runs of consecutive lines of the file: every block comment
\* the multi-line extractor closes is one of them
RunsOfLines ==
    {Join(SubSeq(xLines, r[1], r[2]), Nl) :
        r \in {q \in (1..Len(xLines)) \X (1..Len(xLines)) : q[1] <= q[2]}}

\* the records that come from a block: their text has a token of the pair
IsBlockRecord(c) ==
    \E k \in 1..Len(commentPatterns(Ext(xPath)).Multiline) :
        Contains(c.FullLine, commentPatterns(Ext(xPath)).Multiline[k].Start)

\* C30: whenever hasValidAIMarker is true of a block comment, determineActionType
\* returns '!', '?' or ':': the log.Fatalf branch is not reached from
\* extractMultilineComments, whatever the input.
C30_NoFatalActionType ==
    /\ xOp = "ExtractAIComments" =>
            LET ext == Ext(xPath)
            IN  \A fullComment \in RunsOfLines :
                    hasValidAIMarker(fullComment, ext)
                        => determineActionType(fullComment, ext) \in {"!", "?", ":"}
    /\ \A k \in 1..Len(xComments) : xComments[k].ActionType \in {"!", "?", ":"}

\* a block found by a marker at the start of a line only
C30_Witness ==
    \E k \in 1..Len(xComments) :
        /\ IsBlockRecord(xComments[k])
        /\ hasValidAIMarker(xComments[k].FullLine, Ext(xPath))
        /\ xComments[k].ActionType = ":"

\* ------------------------------------------------------------------------
\* Claims on the empty pair, the digested text and the diffs without hunks
\* ------------------------------------------------------------------------
GoPair == commentPatterns(GoExt).Multiline[1]

\* the line has the start token and, after it, the end token
StartBeforeEnd(line, pair) ==
    /\ Index(line, pair.Start) # 0
    /\ Index(line, pair.End) # 0
    /\ Index(line, pair.Start) + Len(pair.Start) <= Index(line, pair.End)

\* C37: after the multi-line extractor processes a line with the start and the
\* end token of an asymmetric pair, the start first, it is not inside a comment,
\* whether or not the line gave a record; an empty '/**/' line opens no block
\* that takes the following lines into a later record.
C37_PairOnOneLineCloses ==
    (Ran("ExtractAIComments") /\ xIn.family = "mixed") =>
        \A n \in 1..Len(xLines) :
            StartBeforeEnd(xLines[n], GoPair) =>
                /\ ~inCommentAfter(xLines, GoPair, n)
                /\ (xLines[n] = BNone /\ ~inCommentAfter(xLines, GoPair, n - 1)) =>
                        \A k \in 1..Len(xComments) :
                            ~(xComments[k].LineNumber = n /\ xComments[k].EndLine > n)

\* what holds of C37: a pair with text between its tokens, met outside of a
\* block, leaves the extractor outside
C37_PairWithContentCloses ==
    (Ran("ExtractAIComments") /\ xIn.family = "mixed") =>
        \A n \in 1..Len(xLines) :
            (StartBeforeEnd(xLines[n], GoPair) /\ xLines[n] # BNone)
                => ~inCommentAfter(xLines, GoPair, n)

\* C38: the text generateCommentHash digests is distinct for distinct
\* (FilePath, LineNumber, Content, ActionType) tuples, so no two different tuples
\* get the same fingerprint.
C38_DigestedTextInjective ==
    hOut # <<>> =>
        (DifferingFields # {} =>
            /\ HashData(hPair[1]) # HashData(hPair[2])
            /\ hOut[1] # hOut[2])

\* what holds of C38: tuples with the same FilePath and LineNumber and different
\* Content or ActionType are digested to different texts
C38_SamePlaceInjective ==
    hOut # <<>> =>
        ((DifferingFields # {} /\ DifferingFields \subseteq {"Content", "ActionType"})
            => hOut[1] # hOut[2])

\* C39: every FileDiff Parse returns has at least one hunk, whether the file
\* diff was ended by another header, by an end marker or by the end of input.
C39_EveryDiffHasHunk ==
    pOp = "Parse" => \A d \in DOMAIN pDiffs : Len(pDiffs[d].Hunks) > 0

\* what holds of C39: a diff ended by the end of the input has a hunk
C39_LastDiffAtEndOfInput ==
    (pOp = "Parse" /\ \A k \in 2..Len(pContent) : ~matchUpdate(pContent[k]) /\ ~matchEnd(pContent[k]))
        => \A d \in DOMAIN pDiffs : Len(pDiffs[d].Hunks) > 0

\* ------------------------------------------------------------------------
\* Claims on the output of the wrapped program
\* ------------------------------------------------------------------------
\* the bytes read so far
ReadSoFar == SubSeq(ptyStream, 1, ptyRead)

\* C32: with output throttling on, every byte read from the wrapped program is
\* written to stdout exactly once and in the order read, under any interleaving
\* of reads, timer expiries and the final read error.
C32_WrittenOnceInOrder ==
    /\ HasPrefix(ReadSoFar, stdoutWritten)
    /\ (readEnded /\ ~bufTimer /\ firedFlushes = 0) => stdoutWritten = ReadSoFar

\* what holds of C32: until the read error, what is written and what is buffered
\* are together the bytes read, and at the read error all of them are written
C32_UntilReadError ==
    /\ ~readEnded => stdoutWritten \o bufData = ReadSoFar
    /\ readEnded => HasPrefix(stdoutWritten, ReadSoFar)

IsPrintable(c) == c \notin NonPrintable
LineEnds == {k \in 1..ptyRead : ptyStream[k] \in {"\n", "\r"}}
\* the printable bytes of the line that ends at k
LineEndingAt(k) ==
    LET before == {j \in LineEnds : j < k}
        from == IF before = {} THEN 1 ELSE SetMax(before) + 1
    IN  SelectSeq(SubSeq(ptyStream, from, k - 1), IsPrintable)
NonEmptyLineEnds == {k \in LineEnds : LineEndingAt(k) # <<>>}

ExecutionsOf(callback) == {k \in 1..Len(executions) : executions[k].callback = callback}

\* C33: each callback registered with SetPendingAction is executed at most once,
\* by the timer or by Reset's flush and never by both, and a callback that
\* CancelPending took away before it started is never executed, under any
\* interleaving of timer expiry, SetPendingAction, CancelPending and Reset.
C33_CallbackAtMostOnce ==
    \A callback \in 1..registered :
        /\ Cardinality(ExecutionsOf(callback)) <= 1
        /\ callback \in cancelled => ExecutionsOf(callback) = {}

\* one callback run by the function of the timer of an earlier one, one flushed
\* by Reset, one cancelled while its timer's function was waiting
C33_Witness ==
    /\ \E k \in 1..Len(executions) : executions[k].by = "timer"
    /\ \E k \in 1..Len(executions) : executions[k].by = "Reset"
    /\ cancelled # {}
    /\ firedTimers = {} /\ armedTimers = {}

\* ------------------------------------------------------------------------
\* Claims on the clawde-diff watch mode
\* ------------------------------------------------------------------------
\* the loop takes a pager's exit from pagerDone
ReceivesExit == watching /\ Len(pagerDone) > 0 /\ pagerDone' = <<>>

\* C35: in watch mode the exit of a pager the user quit ends runWatchMode, and the
\* exit of a pager that killCurrentPager killed during a refresh does not end it,
\* under any interleaving of ticks, pager exits and kills.
C35_QuitEndsKillDoesNot ==
    [][ReceivesExit =>
        /\ pagers[pagerDone[1]].cause = "user" => ~watching'
        /\ pagers[pagerDone[1]].cause = "kill" => watching']_vars

\* C35, first half alone: the exit of a pager the user quit ends runWatchMode
C35_QuitEnds ==
    [][ReceivesExit /\ pagers[pagerDone[1]].cause = "user" => ~watching']_vars

\* C35, second half alone: the exit of a killed pager does not end runWatchMode
C35_KillDoesNotEnd ==
    [][ReceivesExit /\ pagers[pagerDone[1]].cause = "kill" => watching']_vars

\* C35: what holds instead: the exit taken from pagerDone ends runWatchMode exactly
\* when pagerKilledByUs is unset at that moment, whoever ended the pager
C35_FlagDecides ==
    [][ReceivesExit => (watching' <=> pagerKilledByUs)]_vars

\* a call of checkAndUpdate returns
Checked == checkCount' = checkCount + 1

\* the diff text checkAndUpdate hashes on the capture it got, empty when the capture
\* failed or holds no diff
UnifiedOfCapture(c) ==
    IF c.err THEN <<>>
    ELSE LET diffs == Parse(c.content)
         IN  IF diffs = <<>> THEN <<>> ELSE ToUnified(diffs[Len(diffs)])

UnifiedOfCaptures == [c \in Captures |-> UnifiedOfCapture(c)]

\* the pager on record is running
PagerRunning == currentPagerCmd # 0 /\ pagers[currentPagerCmd].status = "running"

\* C36: checkAndUpdate kills the running pager and redisplays only when the hash of
\* the latest diff's unified text differs from lastHash; when the capture fails, no
\* diff is found or the hash is unchanged it returns lastHash unchanged and leaves
\* the running pager untouched.
C36_RedisplayOnlyOnNewHash ==
    [][Checked =>
        LET unified == UnifiedOfCaptures[capture']
        IN  IF unified = <<>> \/ hashContent(unified) = lastHash
            THEN /\ lastHash' = lastHash
                 /\ UNCHANGED <<shown, currentPagerCmd, pagerKilledByUs, pagers>>
            ELSE /\ lastHash' = hashContent(unified)
                 /\ shown' = Append(shown, unified)
                 /\ currentPagerCmd # 0 =>
                        /\ currentPagerCmd' # currentPagerCmd
                        /\ pagers'[currentPagerCmd].status # "running"]_vars

\* a second check found the diff on display again, under another capture or the
\* same, and the pager of the first check still runs
C36_Witness ==
    /\ checkCount = 2
    /\ Len(shown) = 1
    /\ UnifiedOfCaptures[capture] = shown[1]
    /\ PagerRunning

\* ------------------------------------------------------------------------
\* Claims on the tasks that use the dedup cache
\* ------------------------------------------------------------------------
\* the file events whose handler is inside a call on the cache
InCacheCall == {e \in DOMAIN handlers : handlers[e].pc \in {"in_check", "in_mark"}}

\* a Ctrl+/ goroutine is at work
Searching == {s \in DOMAIN searchers : searchers[s] \in {"finding", "collecting"}}

\* the calls on the cache made for one file event lie together in the log
CallsOfEventTogether ==
    \A i, j, k \in 1..Len(cacheLog) :
        i < j /\ j < k /\ cacheLog[i].event = cacheLog[k].event
            => cacheLog[j].event = cacheLog[i].event

\* a step of a Ctrl+/ goroutine
SearchStep == searchers' # searchers

\* C31: the dedup cache is read and written only by the file watcher's one
\* event-processing task: no two isCommentProcessed or markCommentProcessed calls
\* are ever in progress together, also while a manual search or its context
\* collection runs on another task, and the check-then-mark of one file event is
\* never interleaved with another event's.
C31_CacheOnOneTask ==
    /\ [](Cardinality(InCacheCall) <= 1)
    /\ [](Cardinality(Handling) <= 1)
    /\ []CallsOfEventTogether
    /\ [][SearchStep => UNCHANGED <<processedComments, cacheLog>>]_vars

\* a handler is inside markCommentProcessed while a manual search collects and
\* another event for the same file waits, after an earlier event was handled
C31_Witness ==
    \E e, f, g \in DOMAIN handlers :
        /\ handlers[e].pc = "in_mark"
        /\ handlers[f].pc = "queued" /\ handlers[f].path = handlers[e].path
        /\ handlers[g].pc = "done" /\ g < e
        /\ \E s \in DOMAIN searchers : searchers[s] = "collecting"

====
